---- MODULE Spec2Model ----
(***************************************************************************)
(* A model of the scored Aho-Corasick automaton of                         *)
(* src/exoticst/ac_automation.py (class Automaton).                        *)
(*                                                                         *)
(* Nodes live in an arena: `nodes` is a sequence of node records and a     *)
(* Python object reference is the index of the node in it (the root is     *)
(* index 1, None is 0).  A pattern or a text is a sequence of one-char     *)
(* strings.  A Python dict is modelled in insertion order where the order  *)
(* is iterated over (d_children) and as a function where it is not         *)
(* (Node.output, the Counter returned by traverse).                        *)
(*                                                                         *)
(* Beside it, each with its own variables, initial states and next-state  *)
(* action: UpdatableHeap (src/heap_with_update.py), DijkstraSearch         *)
(* (src/dijkstra_shortest_path.py), Bit (src/bit.py) and the range query   *)
(* tree of src/exoticst/full_bin_tree_for_rmq.py.                          *)
(***************************************************************************)
EXTENDS Integers, Sequences, FiniteSets, TLC

VARIABLES
    words,      \* build's argument: the list of patterns
    h_score,    \* build's argument: the list of scores
    caller,     \* the kind of caller: which arguments it passes to traverse
    budget,     \* the number of traverse calls the caller still makes
    nodes,      \* the arena of Automaton.Node objects, root first
    pc,         \* where the caller is: new, add, fail, built, trav, early
    b_i,        \* build: the index i of enumerate(zip(words, h_score))
    q_iter,     \* _build_fail: the list object the `for n in q` loop iterates
    q,          \* _build_fail: the value of the variable q
    nxt,        \* _build_fail: the value of the variable nxt
    q_pos,      \* _build_fail: position of n in q_iter (1-based)
    ch_pos,     \* _build_fail: position of (k, v) in n.children() (1-based)
    word,       \* traverse: the text
    first,      \* traverse: first ordinal of the range
    last,       \* traverse: last ordinal of the range
    t_i,        \* traverse: number of characters of word consumed so far
    n,          \* traverse: the current node
    res,        \* traverse: the Counter being accumulated
    ret,        \* outcome of the last call that returned
    other,      \* a second call of traverse in progress: its own locals
    heap,       \* UpdatableHeap.heap: the list of HeapElements
    register,   \* UpdatableHeap.register: the dict from key to heap index
    h_ret,      \* UpdatableHeap: outcome of the last call that returned
    edges,      \* make_undirected_weighted_graph's argument
    d_s,        \* shortest_paths' argument s: the source vertex
    g,          \* DijkstraSearch.g: the WeightedGraph (v, adj_list)
    prev,       \* DijkstraSearch.prev: the set of vertices popped
    vds,        \* DijkstraSearch.vds: the dict from vertex to HeapElement
    current,    \* shortest_paths: the element popped last
    d_pos,      \* shortest_paths: position in adj_list[current.key].items()
    d_pc,       \* where shortest_paths' caller is: none, new, loop, relax,
                \* returned, str
    extracted,  \* the keys self.queue.pop() returned, in order (history)
    d_ret,      \* outcome of shortest_paths and of what was called after it
    tree_lst,   \* Bit.tree_lst; empty while no Bit object exists
    arr,        \* the array the Bit object stands for (history)
    bit_n,      \* the n the Bit object was constructed with (history)
    bit_ret,    \* Bit: outcome of the last call that returned
    rq_f,       \* range queries: the function f ("min", "max" or "sum")
    rq_a,       \* range queries: the array a as its owner holds it now
    rq_t,       \* range queries: the tree t; empty before it is built
    rq_upd,     \* range queries: the number of update calls that returned
    rq_ret      \* range queries: outcome of the last call that returned

\* The state of the automaton and of its caller.
auto_vars == <<words, h_score, caller, budget, nodes, pc, b_i, q_iter, q, nxt,
               q_pos, ch_pos, word, first, last, t_i, n, res, ret, other>>

\* The state that is not the automaton's.
heap_vars == <<heap, register, h_ret>>
dij_vars == <<edges, d_s, g, prev, vds, current, d_pos, d_pc, extracted, d_ret>>
bit_vars == <<tree_lst, arr, bit_n, bit_ret>>
rmq_vars == <<rq_f, rq_a, rq_t, rq_upd, rq_ret>>
not_auto == <<heap_vars, dij_vars, bit_vars, rmq_vars>>

vars == <<auto_vars, not_auto>>

----
\* Bounds of the inputs.

\* Longest total length of the patterns of one pattern list.
MaxTotalLen == 3
\* Longest text.
MaxTextLen == 3
\* Unchecked arguments: longest total length of the patterns, longest text,
\* and how many scores there may be more than patterns.
MaxLooseLen == 2
MaxLooseText == 2
MaxMismatch == 1
\* Longest total length of the patterns tried beside the repository's examples.
MaxScenLen == 3

\* UpdatableHeap as a priority queue: most elements in the heap, and the
\* keys 1..MaxHeapKey.
MaxHeapSize == 3
MaxHeapKey == 3
\* UpdatableHeap for sorting: the keys 1..MaxSortKey, and the longest list
\* passed to heapsort.
MaxSortKey == 4
MaxSortLen == 1

\* make_undirected_weighted_graph: longest list of edges.
MaxEdges == 3

\* Bit: longest list passed to init_with_list; the constructor is given up
\* to one more.
MaxBitLen == 3

\* Range queries: longest array beside the array of the tests, and the most
\* update calls made on one tree.
MaxArrLen == 3
MaxUpdates == 2

Alphabet == {"a", "b"}
\* UpdatableHeap: the heap_keys and the data passed.
Priorities == {1, 2, 3}
Datas == {0}
\* Graphs: the vertex labels and the edge weights.
Vertices == {1, 2, 3}
Weights == {0, 1, 3}
\* Bit: the elements of the lists, the increments, and the values an element
\* is let to take.
BitValues == {-1, 2}
Increments == {-1, 2}
BitRange == -1..2
\* Range queries: the elements of the arrays and the new values given to
\* them.
RmqValues == {1, 3}
Scores == {-1, 0, 2}
LooseScores == {-1, 2}

----
\* Python values.

None == 0
root == 1

\* Counter() and a fresh defaultdict(list): no key.
EmptyMap == [k \in {} |-> 0]

Min(x, y) == IF x <= y THEN x ELSE y

\* Automaton.Node.__init__
Node(label) ==
    [label |-> label, d_children |-> <<>>, output |-> EmptyMap, fail |-> None]

\* Automaton.Node.get_child: d_children.get(char), None when absent.
get_child(nd, char) ==
    IF \E j \in 1..Len(nd.d_children) : nd.d_children[j][1] = char
    THEN LET j == CHOOSE j \in 1..Len(nd.d_children) : nd.d_children[j][1] = char
         IN  nd.d_children[j][2]
    ELSE None

\* defaultdict(list).__getitem__ on a key known to exist or not: the list.
get_list(output, key) == IF key \in DOMAIN output THEN output[key] ELSE <<>>

\* add_word replacing the list of the key (self.output[word] = [(idx, h)]).
add_word_overwrite(nd, w, idx, h) ==
    [nd EXCEPT !.output =
        [key \in (DOMAIN nd.output) \cup {w} |->
            IF key = w THEN <<<<idx, h>>>> ELSE nd.output[key]]]

\* Automaton.Node.add_word: self.output[word].append((idx, h))
add_word(nd, w, idx, h) ==
    [nd EXCEPT !.output =
        [key \in (DOMAIN nd.output) \cup {w} |->
            IF key = w THEN Append(get_list(nd.output, w), <<idx, h>>)
            ELSE nd.output[key]]]

\* Automaton.Node.add_child_if_absent on node `id` of arena ns:
\* d_children.setdefault(char, Node(char)).  Yields <<arena, child>>.
add_child_if_absent(ns, id, char) ==
    LET ch == get_child(ns[id], char) IN
    IF ch # None THEN <<ns, ch>>
    ELSE LET new == Len(ns) + 1
             ns1 == [ns EXCEPT ![id].d_children = Append(@, <<char, new>>)]
         IN  <<Append(ns1, Node(char)), new>>

\* The loop of Automaton._add_word: descend from node `id` along w[j..].
RECURSIVE add_path(_, _, _, _)
add_path(ns, id, w, j) ==
    IF j > Len(w) THEN <<ns, id>>
    ELSE LET r == add_child_if_absent(ns, id, w[j])
         IN  add_path(r[1], r[2], w, j + 1)

\* _add_word recording the ordinal counted from 1.
_add_word_from_one(ns, w, idx, h) ==
    LET r == add_path(ns, root, w, 1)
    IN  [r[1] EXCEPT ![r[2]] = add_word(@, w, idx + 1, h)]

\* Automaton._add_word
_add_word(ns, w, idx, h) ==
    LET r == add_path(ns, root, w, 1)
    IN  [r[1] EXCEPT ![r[2]] = add_word(@, w, idx, h)]

\* init_fail leaving the root's own fail link unset.
init_fail_no_root(ns) ==
    LET kids == ns[root].d_children IN
    [id \in 1..Len(ns) |->
        IF \E j \in 1..Len(kids) : kids[j][2] = id
        THEN [ns[id] EXCEPT !.fail = root]
        ELSE ns[id]]

\* Automaton._build_fail, lines 69-72: root.fail = root and v.fail = root for
\* every child v of the root.
init_fail(ns) ==
    LET kids == ns[root].d_children IN
    [id \in 1..Len(ns) |->
        IF id = root \/ \E j \in 1..Len(kids) : kids[j][2] = id
        THEN [ns[id] EXCEPT !.fail = root]
        ELSE ns[id]]

\* fail_walk looking for the child at the root only.
fail_walk_root(ns, n_fail, k) == get_child(ns[root], k)

\* Automaton._build_fail, the candidate walk (lines 80-86) for a child reached
\* by character k, from the candidate n_fail: the child found, or None when
\* the walk ended at the root without one.
RECURSIVE fail_walk(_, _, _)
fail_walk(ns, n_fail, k) ==
    LET n_fail_ch == get_child(ns[n_fail], k) IN
    IF n_fail_ch # None THEN n_fail_ch
    ELSE LET nf == ns[n_fail].fail
             nf_ch == get_child(ns[nf], k)
         IN  IF nf_ch = None /\ nf = root THEN None
             ELSE fail_walk(ns, nf, k)

\* fail_target with every failure link pointing at the root.
fail_target_root(ns, p, k) == root

\* Automaton._build_fail, lines 87-90: v.fail for the child of node p by k.
fail_target(ns, p, k) ==
    LET n_fail_ch == fail_walk(ns, ns[p].fail, k)
    IN  IF n_fail_ch # None THEN n_fail_ch ELSE root

\* merge_output without the propagation: v keeps its own entries only.
merge_output_own(v_out, f_out) == v_out

\* merge_output extending v's lists twice.
merge_output_twice(v_out, f_out) ==
    [key \in (DOMAIN v_out) \cup (DOMAIN f_out) |->
        get_list(v_out, key) \o get_list(f_out, key) \o get_list(f_out, key)]

\* Automaton._build_fail, lines 91-92: for every key of v.fail.output,
\* v.output[key].extend(v.fail.output[key]).
merge_output(v_out, f_out) ==
    [key \in (DOMAIN v_out) \cup (DOMAIN f_out) |->
        get_list(v_out, key) \o get_list(f_out, key)]

\* set_fail merging the outputs of the failure target into v without
\* storing the target in v.fail.
set_fail_unset(ns, p, k, v) ==
    [ns EXCEPT ![v].output = merge_output(@, ns[fail_target(ns, p, k)].output)]

\* set_fail storing the target in v.fail and leaving the merge of the
\* outputs to a later pass.
set_fail_link_only(ns, p, k, v) ==
    [ns EXCEPT ![v].fail = fail_target(ns, p, k)]

\* Automaton._build_fail, lines 80-92, for the child v of p by character k.
set_fail(ns, p, k, v) ==
    LET f == fail_target(ns, p, k)
        ns1 == [ns EXCEPT ![v].fail = f]
    IN  [ns1 EXCEPT ![v].output = merge_output(@, ns1[f].output)]

\* trav_walk restarting at the root on a mismatch instead of following the
\* failure links.
trav_walk_restart(ns, m, c) ==
    LET n_ch == get_child(ns[m], c) IN
    IF n_ch # None THEN <<m, n_ch>>
    ELSE <<root, get_child(ns[root], c)>>

\* trav_walk without the root as its base case: a walk that finds no child
\* at the root falls off the chain.
trav_walk_no_base(ns, m, c) ==
    LET n_ch == get_child(ns[m], c) IN
    IF n_ch # None THEN <<m, n_ch>>
    ELSE IF \/ ns[m].fail = None
            \/ ns[m].fail = root /\ get_child(ns[root], c) = None
         THEN <<None, None>>
         ELSE <<ns[m].fail, get_child(ns[ns[m].fail], c)>>

\* trav_walk staying on the node it was on when no node of the chain has a
\* child for c.
trav_walk_stay(ns, m, c) ==
    LET n_ch == get_child(ns[m], c) IN
    IF n_ch # None THEN <<m, n_ch>>
    ELSE IF ns[m].fail = None THEN <<None, None>>
    ELSE IF get_child(ns[ns[m].fail], c) # None
    THEN <<ns[m].fail, get_child(ns[ns[m].fail], c)>>
    ELSE <<m, None>>

\* Automaton.traverse, lines 121-126: the fallback walk of character c from
\* node m.  Yields <<n, n_ch>> as the loop leaves them, and <<None, None>>
\* when n.fail is None, where n.get_child raises AttributeError.
RECURSIVE trav_walk(_, _, _)
trav_walk(ns, m, c) ==
    LET n_ch == get_child(ns[m], c) IN
    IF n_ch # None THEN <<m, n_ch>>
    ELSE LET m1 == ns[m].fail IN
         IF m1 = None THEN <<None, None>>
         ELSE LET m1_ch == get_child(ns[m1], c)
              IN  IF m1_ch = None /\ m1 = root THEN <<m1, None>>
                  ELSE trav_walk(ns, m1, c)

\* sum_in_range with the range taken as half open, f <= idx < l.
RECURSIVE sum_in_range_excl(_, _, _, _)
sum_in_range_excl(lst, j, f, l) ==
    IF j > Len(lst) THEN 0
    ELSE (IF f <= lst[j][1] /\ lst[j][1] < l THEN lst[j][2] ELSE 0)
         + sum_in_range_excl(lst, j + 1, f, l)

\* Sum of the scores h of the entries (idx, h) of lst with f <= idx <= l,
\* added in list order (lines 130-132 for one key).
RECURSIVE sum_in_range(_, _, _, _)
sum_in_range(lst, j, f, l) ==
    IF j > Len(lst) THEN 0
    ELSE (IF f <= lst[j][1] /\ lst[j][1] <= l THEN lst[j][2] ELSE 0)
         + sum_in_range(lst, j + 1, f, l)

\* in_range without the upper end of the range.
in_range_no_last(lst, f, l) ==
    \E j \in 1..Len(lst) : f <= lst[j][1]

\* Whether some entry of lst has its ordinal within [f, l].
in_range(lst, f, l) ==
    \E j \in 1..Len(lst) : f <= lst[j][1] /\ lst[j][1] <= l

\* The score of the last entry of lst within [f, l], 0 when there is none.
RECURSIVE last_in_range(_, _, _, _)
last_in_range(lst, j, f, l) ==
    IF j = 0 THEN 0
    ELSE IF f <= lst[j][1] /\ lst[j][1] <= l THEN lst[j][2]
         ELSE last_in_range(lst, j - 1, f, l)

\* emit touching every key of the output map, in range or not
\* (res[word2] += 0 for an entry out of range).
emit_all_keys(r, output, f, l) ==
    [key \in (DOMAIN r) \cup (DOMAIN output) |->
        (IF key \in DOMAIN r THEN r[key] ELSE 0)
        + (IF key \in DOMAIN output
           THEN sum_in_range(output[key], 1, f, l) ELSE 0)]

\* emit assigning instead of adding (res[word2] = h).
emit_overwrite(r, output, f, l) ==
    LET hit == {key \in DOMAIN output : in_range(output[key], f, l)} IN
    [key \in (DOMAIN r) \cup hit |->
        IF key \in hit THEN last_in_range(output[key], Len(output[key]), f, l)
        ELSE r[key]]

\* Automaton.traverse, lines 129-132: res[word2] += h for every entry in
\* range of every key of the output map; a Counter key exists from its first +=.
emit(r, output, f, l) ==
    LET hit == {key \in DOMAIN output : in_range(output[key], f, l)} IN
    [key \in (DOMAIN r) \cup hit |->
        (IF key \in DOMAIN r THEN r[key] ELSE 0)
        + (IF key \in hit THEN sum_in_range(output[key], 1, f, l) ELSE 0)]

\* Automaton.traverse, the body of the for loop (lines 121-132) for the
\* character c, from node m with Counter r.  Yields <<n, res>>, with n = None
\* when the walk raised.
trav_char(ns, m, r, c, f, l) ==
    LET w == trav_walk(ns, m, c) IN
    IF w[2] # None THEN <<w[2], emit(r, ns[w[2]].output, f, l)>>
    ELSE <<w[1], r>>

\* defaultdict(list).__getitem__ for every key of keys: a key that is missing
\* is inserted with an empty list, a key that is there is left as it is.
touch(output, keys) ==
    [key \in (DOMAIN output) \cup keys |-> get_list(output, key)]

\* A traversal looking every known pattern up at the node it reached.
read_keys_all(ns, m) == UNION {DOMAIN ns[id].output : id \in 1..Len(ns)}

\* Automaton.traverse, lines 129-130: the keys whose lists n.output[word2]
\* reads at node m are the keys the map holds.
read_keys(ns, m) == DOMAIN ns[m].output

\* Automaton.traverse, the body of the for loop for the character c from
\* node m: the arena it leaves behind.
trav_nodes(ns, m, c) ==
    LET w == trav_walk(ns, m, c) IN
    IF w[2] # None
    THEN [ns EXCEPT ![w[2]].output = touch(@, read_keys(ns, w[2]))]
    ELSE ns

\* A traversal that keeps n and res where callers share them (self.n,
\* self.res): it starts from what the last step of any call left.
start_carried(prev_n, prev_res) == <<prev_n, prev_res>>

\* Automaton.traverse, lines 118-119: n and res are locals, made anew by every
\* call whatever another call left in its own.
start(prev_n, prev_res) == <<root, EmptyMap>>

\* What stands for the result of a call that raised.
Raised(exc) == [exc |-> exc]

\* Automaton.traverse as a function: the Counter returned for text w and
\* range [f, l], by the loop body applied to w[j], w[j+1], ...
RECURSIVE trav_from(_, _, _, _, _, _, _)
trav_from(ns, m, r, w, j, f, l) ==
    IF j > Len(w) THEN r
    ELSE LET s == trav_char(ns, m, r, w[j], f, l)
         IN  IF s[1] = None THEN Raised("AttributeError")
             ELSE trav_from(ns, s[1], s[2], w, j + 1, f, l)

traverse(ns, w, f, l) == trav_from(ns, root, EmptyMap, w, 1, f, l)

----
\* src/heap_with_update.py: class UpdatableHeap.  An object is the record of
\* its fields heap and register; a heap index is Python's, from 0, so
\* heap[idx] is the element idx + 1 of the sequence.

\* HeapElement = namedtuple('HeapElement', ['heap_key', 'key', 'data']).
HeapElement(heap_key, key, data) == <<heap_key, key, data>>

\* Tuple comparison of two HeapElements: by heap_key, then key, then data.
el_le(a, b) ==
    \/ a[1] < b[1]
    \/ a[1] = b[1] /\ a[2] < b[2]
    \/ a[1] = b[1] /\ a[2] = b[2] /\ a[3] <= b[3]

el_lt(a, b) == el_le(a, b) /\ a # b

\* UpdatableHeap.__init__
UpdatableHeap == [heap |-> <<>>, register |-> EmptyMap]

\* What register.get(key) returns for a key the dict does not hold.
NoIndex == -1

\* dict.get
reg_get(reg, key) == IF key \in DOMAIN reg THEN reg[key] ELSE NoIndex

\* `not idx` for what register.get returned: None is falsy, and so is 0.
not_idx(idx) == idx = NoIndex \/ idx = 0

\* register[key] = idx
reg_put(reg, key, idx) ==
    [k \in (DOMAIN reg) \cup {key} |-> IF k = key THEN idx ELSE reg[k]]

\* del register[key]
reg_del(reg, key) == [k \in (DOMAIN reg) \ {key} |-> reg[k]]

\* self.heap[idx]
at(hp, idx) == hp.heap[idx + 1]

\* UpdatableHeap._swap_heap_and_register: the second register entry is
\* assigned after the first.
_swap_heap_and_register(hp, idx, idx2) ==
    LET idx_key == at(hp, idx)[2]
        idx2_key == at(hp, idx2)[2]
    IN  [heap |-> [hp.heap EXCEPT ![idx + 1] = at(hp, idx2),
                                  ![idx2 + 1] = at(hp, idx)],
         register |-> reg_put(reg_put(hp.register, idx2_key, idx),
                              idx_key, idx2)]

\* UpdatableHeap._bubble_up: yields <<the object, the returned pos>>.
RECURSIVE _bubble_up(_, _)
_bubble_up(hp, pos) ==
    IF pos > 0
    THEN LET parent_idx == (pos - 1) \div 2 IN
         IF el_le(at(hp, parent_idx), at(hp, pos))
         THEN <<[hp EXCEPT !.register = reg_put(@, at(hp, pos)[2], pos)],
                pos>>
         ELSE _bubble_up(_swap_heap_and_register(hp, pos, parent_idx),
                         parent_idx)
    ELSE <<hp, pos>>

\* UpdatableHeap._bubble_down: yields <<the object, the returned pos>>.
RECURSIVE _bubble_down(_, _)
_bubble_down(hp, pos) ==
    IF 2 * pos + 1 < Len(hp.heap)
    THEN LET chld_idx == 2 * pos + 1
             chld2_idx == chld_idx + 1
             min_chld_idx ==
                 IF chld2_idx < Len(hp.heap)
                    /\ el_lt(at(hp, chld2_idx), at(hp, chld_idx))
                 THEN chld2_idx ELSE chld_idx
         IN  IF el_le(at(hp, pos), at(hp, min_chld_idx))
             THEN <<hp, pos>>
             ELSE _bubble_down(_swap_heap_and_register(hp, pos, min_chld_idx),
                               min_chld_idx)
    ELSE <<hp, pos>>

\* UpdatableHeap.push
push(hp, heap_key, key, data) ==
    LET idx == Len(hp.heap)
        h1 == [heap |-> Append(hp.heap, HeapElement(heap_key, key, data)),
               register |-> reg_put(hp.register, key, idx)]
    IN  _bubble_up(h1, idx)[1]

\* pop leaving the element moved to the root where the swap put it.
pop_no_sift(hp) ==
    LET end == Len(hp.heap) - 1
        h1 == _swap_heap_and_register(hp, 0, end)
        result == at(h1, end)
    IN  <<[heap |-> SubSeq(h1.heap, 1, end),
           register |-> reg_del(h1.register, result[2])], result>>

\* UpdatableHeap.pop on a heap that is not empty: yields <<the object, the
\* element returned>>.
pop(hp) ==
    LET end == Len(hp.heap) - 1
        h1 == _swap_heap_and_register(hp, 0, end)
        result == at(h1, end)
        h2 == [heap |-> SubSeq(h1.heap, 1, end),
               register |-> reg_del(h1.register, result[2])]
    IN  <<_bubble_down(h2, 0)[1], result>>

\* UpdatableHeap.decrease
decrease(hp, new_heap_key, key, data) ==
    LET idx == reg_get(hp.register, key) IN
    IF not_idx(idx)
    THEN push(hp, new_heap_key, key, data)
    ELSE _bubble_up([hp EXCEPT !.heap[idx + 1] =
                        HeapElement(new_heap_key, key, data)], idx)[1]

\* UpdatableHeap.update for a key the register holds.
update(hp, new_heap_key, key, data) ==
    LET idx == hp.register[key]
        h1 == [hp EXCEPT !.heap[idx + 1] =
                  HeapElement(new_heap_key, key, data)]
        up == _bubble_up(h1, idx)
    IN  IF up[2] # idx THEN _bubble_down(up[1], idx)[1] ELSE up[1]

\* `while self.heap: ... self.pop()`: yields <<the object, the elements
\* popped, in order, after those of result>>.
RECURSIVE pop_all(_, _)
pop_all(hp, result) ==
    IF hp.heap = <<>> THEN <<hp, result>>
    ELSE LET p == pop(hp) IN pop_all(p[1], Append(result, p[2]))

\* `for heap_el in lst: self.push(*heap_el)` from the element j of lst on.
RECURSIVE push_all(_, _, _)
push_all(hp, lst, j) ==
    IF j > Len(lst) THEN hp
    ELSE push_all(push(hp, lst[j][1], lst[j][2], lst[j][3]), lst, j + 1)

\* UpdatableHeap.sorted_iterator consumed to its end: yields <<the object,
\* the elements yielded>>.  The heap list is put back, the register is not.
sorted_iterator(hp) ==
    LET heap_store == hp.heap
        popped == pop_all(hp, <<>>)
    IN  <<[heap |-> heap_store, register |-> popped[1].register], popped[2]>>

\* UpdatableHeap.heapsort: yields <<the object, the list returned>>.
heapsort(hp, lst) ==
    LET h1 == push_all(hp, lst, 1)
        heap_store == h1.heap
        popped == pop_all(h1, <<>>)
    IN  <<[heap |-> heap_store, register |-> popped[1].register], popped[2]>>

----
\* src/dijkstra_shortest_path.py.  A dict that is iterated over is the list
\* of its <<key, value>> items in insertion order; adj_list, a
\* defaultdict(dict), is a function from the vertices it holds to such lists.

\* The keys of a dict.
items_keys(items) == {items[j][1] : j \in 1..Len(items)}

\* d[k] for a key the dict holds.
items_get(items, k) ==
    items[CHOOSE j \in 1..Len(items) : items[j][1] = k][2]

\* d[k] = v: a new key goes to the end, an old one keeps its place.
items_set(items, k, v) ==
    IF k \in items_keys(items)
    THEN [j \in 1..Len(items) |->
             IF items[j][1] = k THEN <<k, v>> ELSE items[j]]
    ELSE Append(items, <<k, v>>)

\* adj_list[x] of a defaultdict(dict): the empty dict for a new key.
adj_get(adj, x) == IF x \in DOMAIN adj THEN adj[x] ELSE <<>>

\* adj_list[x]: the defaultdict after the read, which inserts a new key.
adj_touch(adj, x) ==
    [k \in (DOMAIN adj) \cup {x} |-> adj_get(adj, k)]

\* adj_list[x][y] = r
adj_set(adj, x, y, r) ==
    [k \in (DOMAIN adj) \cup {x} |->
        IF k = x THEN items_set(adj_get(adj, x), y, r) ELSE adj[k]]

\* make_undirected_weighted_graph, lines 121-125 (and 126-130 with x and y
\* exchanged): the smaller weight of parallel edges is kept.
half_edge(adj, x, y, r) ==
    IF x \notin DOMAIN adj \/ y \notin items_keys(adj[x])
    THEN adj_set(adj, x, y, r)
    ELSE adj_set(adj, x, y, Min(items_get(adj[x], y), r))

\* make_undirected_weighted_graph, the loop over edges from edge j on.
RECURSIVE add_edges(_, _, _)
add_edges(adj, es, j) ==
    IF j > Len(es) THEN adj
    ELSE LET x == es[j][1]
             y == es[j][2]
             r == es[j][3]
         IN  add_edges(half_edge(half_edge(adj, x, y, r), y, x, r), es, j + 1)

\* sorted() of a set of numbers.
RECURSIVE sorted(_)
sorted(S) ==
    IF S = {} THEN <<>>
    ELSE LET m == CHOOSE x \in S : \A y \in S : x <= y
         IN  <<m>> \o sorted(S \ {m})

\* WeightedGraph.__init__
WeightedGraph(lst_of_vertices, adj_list) ==
    [v |-> lst_of_vertices, adj_list |-> adj_list]

make_undirected_weighted_graph(es) ==
    LET adj_list == add_edges(EmptyMap, es, 1)
    IN  WeightedGraph(sorted(DOMAIN adj_list), adj_list)

\* The body of shortest_paths' for loop that sets a distance once, when the
\* vertex is first seen, and never lowers it.
relax_first_only(dvds, hp, dprev, cur, u, weight) ==
    IF u \notin dprev /\ u \notin DOMAIN dvds
    THEN LET el == HeapElement(cur[1] + weight, u, None)
         IN  <<reg_put(dvds, u, el), decrease(hp, el[1], el[2], el[3])>>
    ELSE <<dvds, hp>>

\* DijkstraSearch.shortest_paths, lines 69-74, the body of the for loop for
\* the item (u, weight) of the popped element cur: yields <<vds, queue>>.
relax(dvds, hp, dprev, cur, u, weight) ==
    IF u \notin dprev
       /\ (u \notin DOMAIN dvds \/ cur[1] + weight < dvds[u][1])
    THEN LET el == HeapElement(cur[1] + weight, u, None)
         IN  <<reg_put(dvds, u, el), decrease(hp, el[1], el[2], el[3])>>
    ELSE <<dvds, hp>>

\* shortest_paths, line 75: the dict returned.
dist_map(dvds) == [vertex \in DOMAIN dvds |-> dvds[vertex][1]]

\* A value of find_shortest_paths' list: a number, or the string '-1'.
IntVal(x) == [int |-> TRUE, val |-> x]
StrVal(x) == [int |-> FALSE, val |-> x]

\* find_shortest_paths, lines 88-90, after shortest_paths has returned.
RECURSIVE find_shortest_paths(_, _, _, _)
find_shortest_paths(gv, dvds, src, j) ==
    IF j > Len(gv) THEN <<>>
    ELSE (IF gv[j] = src THEN <<>>
          ELSE IF gv[j] \in DOMAIN dvds THEN <<IntVal(dvds[gv[j]][1])>>
          ELSE <<StrVal("-1")>>)
         \o find_shortest_paths(gv, dvds, src, j + 1)

\* str(w)
str(w) == IF w.int THEN ToString(w.val) ELSE w.val

\* ' '.join of the str of the elements of sws from element j on.
RECURSIVE join_str(_, _)
join_str(sws, j) ==
    IF j > Len(sws) THEN ""
    ELSE IF j = Len(sws) THEN str(sws[j])
    ELSE str(sws[j]) \o " " \o join_str(sws, j + 1)

\* str_of_sorted_shortest_paths, lines 100-101 (no distance is float('inf')).
str_of_sorted_shortest_paths(sws) == join_str(sws, 1)

----
\* bit.py.  tree_lst is a sequence; Python's tree_lst[k] is tree[k + 1].

\* x & -x of lines 74 and 87, for x >= 0: the last set bit of x.
RECURSIVE lowbit(_)
lowbit(x) ==
    IF x = 0 THEN 0
    ELSE IF x % 2 = 1 THEN 1
    ELSE 2 * lowbit(x \div 2)

\* [0] * k, lines 47 and 59.
zeros(k) == [j \in 1..k |-> 0]

\* Bit.__init__, lines 45-47: the new tree_lst, or BITError and no object.
Bit(size) ==
    IF size < 1 THEN [tree_lst |-> <<>>, exc |-> "BITError"]
    ELSE [tree_lst |-> zeros(size + 1), exc |-> "none"]

\* The while loop of add_at, lines 72-74.
RECURSIVE add_at_from(_, _, _)
add_at_from(tree, bit_idx, increment) ==
    IF bit_idx < Len(tree)
    THEN add_at_from([tree EXCEPT ![bit_idx + 1] = @ + increment],
                     bit_idx + lowbit(bit_idx), increment)
    ELSE tree

\* Bit.add_at, lines 71-74, for idx >= 0.
add_at_single(tree, idx, increment) ==
    IF idx + 1 < Len(tree) THEN [tree EXCEPT ![idx + 2] = @ + increment]
    ELSE tree
add_at(tree, idx, increment) == add_at_from(tree, idx + 1, increment)

\* The while loop of prefix_sum, lines 85-87.
RECURSIVE prefix_sum_from(_, _, _)
prefix_sum_from(tree, bit_idx, pr_sum) ==
    IF bit_idx # 0
    THEN prefix_sum_from(tree, bit_idx - lowbit(bit_idx),
                         pr_sum + tree[bit_idx + 1])
    ELSE pr_sum

\* Bit.prefix_sum, lines 83-88, for idx >= -1.
prefix_sum(tree, idx) == prefix_sum_from(tree, idx + 1, 0)

\* Bit.range_sum, line 97.
range_sum(tree, i, j) == prefix_sum(tree, j) - prefix_sum(tree, i - 1)

\* Bit.element, line 105.
element(tree, j) == prefix_sum(tree, j) - prefix_sum(tree, j - 1)

\* The for loop of init_with_list, lines 60-61, from the j-th element on.
RECURSIVE add_list(_, _, _)
add_list(tree, lst, j) ==
    IF j > Len(lst) THEN tree
    ELSE add_list(add_at(tree, j - 1, lst[j]), lst, j + 1)

\* Bit.init_with_list, lines 56-61: the tree_lst it leaves and what it
\* raised.
init_with_list_reset(tree, lst) ==
    IF Len(lst) < 1 THEN [tree_lst |-> zeros(Len(tree)), exc |-> "BITError"]
    ELSE [tree_lst |-> add_list(zeros(Len(lst) + 1), lst, 1), exc |-> "none"]
init_with_list(tree, lst) ==
    IF Len(lst) < 1 THEN [tree_lst |-> tree, exc |-> "BITError"]
    ELSE [tree_lst |-> add_list(zeros(Len(lst) + 1), lst, 1), exc |-> "none"]

----
\* Input sets.

\* The non-empty strings over the alphabet A of length at most len.
Pats(A, len) == UNION {[1..k -> A] : k \in 1..len}

\* The lists of non-empty patterns over A of total length at most total.
RECURSIVE WordLists(_, _)
WordLists(A, total) ==
    {<<>>} \cup
    UNION {{<<p>> \o rest : rest \in WordLists(A, total - Len(p))} :
           p \in Pats(A, total)}

\* The texts over A of length at most len.
Texts(A, len) == UNION {[1..k -> A] : k \in 0..len}

\* The arguments of traverse with a text of texts and both ordinals in idxs.
Calls(texts, idxs) == [word : texts, first : idxs, last : idxs]

\* No UpdatableHeap is in use.
NoHeap ==
    /\ heap = <<>>
    /\ register = EmptyMap
    /\ h_ret = [op |-> "none"]

\* No second call of traverse is in progress.
NoCall == [pc |-> "idle"]

\* The state after Automaton(): a root labelled '1', nothing called yet.
NewAutomaton ==
    /\ nodes = <<Node("1")>>
    /\ pc = "new"
    /\ b_i = 0
    /\ q_iter = <<>> /\ q = <<>> /\ nxt = <<>> /\ q_pos = 0 /\ ch_pos = 0
    /\ word = <<>> /\ first = 0 /\ last = 0 /\ t_i = 0 /\ n = root
    /\ res = EmptyMap
    /\ ret = [op |-> "none"]
    /\ other = NoCall

\* No DijkstraSearch is in use.
NoDijkstra ==
    /\ edges = <<>> /\ d_s = 0
    /\ g = [v |-> <<>>, adj_list |-> EmptyMap]
    /\ prev = {} /\ vds = EmptyMap
    /\ current = <<>> /\ d_pos = 0 /\ d_pc = "none"
    /\ extracted = <<>>
    /\ d_ret = [op |-> "none"]

\* No Bit is in use.
NoBit ==
    /\ tree_lst = <<>> /\ arr = <<>> /\ bit_n = 0
    /\ bit_ret = [op |-> "none"]

\* No range query tree is in use.
NoRmq ==
    /\ rq_f = "none" /\ rq_a = <<>> /\ rq_t = <<>> /\ rq_upd = 0
    /\ rq_ret = [op |-> "none"]

\* The automaton is the only object in use.
Constructed == NewAutomaton /\ NoHeap /\ NoDijkstra /\ NoBit /\ NoRmq

\* No automaton is given anything to build or to traverse.
NoAutomaton ==
    /\ words = <<>> /\ h_score = <<>>
    /\ budget = 0
    /\ NewAutomaton

\* The keys an UpdatableHeap is called with, and the elements made of them.
HeapKeys == 1..(IF caller = "sort" THEN MaxSortKey ELSE MaxHeapKey)
HeapSizes == 0..(IF caller = "sort" THEN MaxSortKey ELSE MaxHeapSize)
Elements == {HeapElement(heap_key, key, data) :
             heap_key \in Priorities, key \in HeapKeys, data \in Datas}

\* The keys of the elements of a list of HeapElements.
KeysOf(lst) == {lst[j][2] : j \in 1..Len(lst)}

\* The lists of at most len elements with distinct keys, none of them in used.
RECURSIVE SortLists(_, _)
SortLists(used, len) ==
    {<<>>} \cup
    (IF len = 0 THEN {}
     ELSE UNION {{<<e>> \o rest : rest \in SortLists(used \cup {e[2]}, len - 1)} :
                 e \in {x \in Elements : x[2] \notin used}})

\* The edges of test_dijkstraSearch and test_dijkstra_search.
E_test == <<<<1, 2, 24>>, <<1, 4, 20>>, <<3, 1, 3>>, <<4, 3, 12>>>>

\* Edge lists: at most MaxEdges edges x-y with x < y among Vertices, with any
\* of Weights; and the list and source of the tests.
EdgeSet == {e \in Vertices \X Vertices \X Weights : e[1] < e[2]}
EdgeLists == UNION {[1..k -> EdgeSet] : k \in 0..MaxEdges}
GraphCalls ==
    {[edges |-> es, s |-> v] : es \in EdgeLists, v \in Vertices}
    \cup {[edges |-> E_test, s |-> 1]}

\* The state after DijkstraSearch(make_undirected_weighted_graph(edges)).
InitDijkstra ==
    /\ NoAutomaton /\ NoBit /\ NoRmq
    /\ caller = "dijkstra"
    /\ \E c \in GraphCalls : edges = c.edges /\ d_s = c.s
    /\ g = make_undirected_weighted_graph(edges)
    /\ heap = UpdatableHeap.heap
    /\ register = UpdatableHeap.register
    /\ h_ret = [op |-> "none"]
    /\ prev = {} /\ vds = EmptyMap
    /\ current = <<>> /\ d_pos = 0 /\ d_pc = "new"
    /\ extracted = <<>>
    /\ d_ret = [op |-> "none"]

\* The list of test_range_sum and test_element.
L_test == <<1, 5, 10, 100>>

\* Bit: the lengths given to the constructor, and the lists given to
\* init_with_list (the empty list among them).
BitLengths == -1..(MaxBitLen + 1)
BitLists == UNION {[1..k -> BitValues] : k \in 0..MaxBitLen} \cup {L_test}

\* A caller that is about to construct a Bit.
InitBit ==
    /\ NoAutomaton /\ NoHeap /\ NoDijkstra /\ NoBit /\ NoRmq
    /\ caller = "bit"

\* The state after UpdatableHeap().
NewHeap ==
    /\ NoAutomaton /\ NoDijkstra /\ NoBit /\ NoRmq
    /\ heap = UpdatableHeap.heap
    /\ register = UpdatableHeap.register
    /\ h_ret = [op |-> "none"]

\* A caller that uses the heap as a priority queue.
InitHeap == caller = "queue" /\ NewHeap

\* A caller that pushes and sorts.
InitSort == caller = "sort" /\ NewHeap

\* Arguments as the contract asks for them: non-empty patterns, one score per
\* pattern, 0 <= first <= last <= n-1.
Init ==
    /\ words \in WordLists(Alphabet, MaxTotalLen)
    /\ h_score \in [1..Len(words) -> Scores]
    /\ caller = "contract"
    /\ budget = 1
    /\ Constructed

Max(x, y) == IF x >= y THEN x ELSE y

\* Arguments nothing has checked: score lists shorter or longer than the
\* pattern list, ranges reversed or beyond either end of the ordinals.
InitLoose ==
    /\ words \in WordLists(Alphabet, MaxLooseLen)
    /\ h_score \in UNION {[1..k -> LooseScores] :
                          k \in Max(0, Len(words) - MaxMismatch)
                                ..(Len(words) + MaxMismatch)}
    /\ caller = "loose"
    /\ budget = 1
    /\ Constructed

\* The examples of the repository's tests and docstrings.
W_he == <<"h", "e">>
W_she == <<"s", "h", "e">>
W_his == <<"h", "i", "s">>
W_her == <<"h", "e", "r">>
W_hers == <<"h", "e", "r", "s">>
W_a == <<"a">>
W_b == <<"b">>
W_c == <<"c">>
W_d == <<"d">>
W_aa == <<"a", "a">>
T_shershehishers ==
    <<"s", "h", "e", "r", "s", "h", "e", "h", "i", "s", "h", "e", "r", "s">>
T_xyz == <<"x", "y", "z">>
T_caaab == <<"c", "a", "a", "a", "b">>
T_aaa == <<"a", "a", "a">>

Words_he == <<W_he, W_she, W_his, W_her, W_hers>>
Scores_he == <<1, 3, 2, 4, 5>>
Words_ab == <<W_a, W_b, W_c, W_aa, W_d, W_b>>
Scores_ab == <<1, 2, 3, 4, 5, 6>>

Examples ==
    {[words |-> Words_he, h_score |-> Scores_he],
     [words |-> Words_ab, h_score |-> Scores_ab],
     [words |-> <<W_aa>>, h_score |-> <<1>>]}

ExampleTexts == {T_shershehishers, T_xyz, T_caaab, T_aaa}

\* The arguments a caller of each kind passes to traverse on the automaton
\* built from ws.  "contract": a short text and 0 <= first <= last <= n-1.
\* "loose": a short text and any ordinals from -1 to n.  "early" and "multi":
\* a short text and a range within the ordinals (0..0 where there is no
\* pattern yet).  "examples": the
\* texts of the examples or a short text with a range as the contract asks,
\* and the range [0, len(text) - 1] that test_traverse_0 passes.
CallsOf(kind, ws) ==
    CASE kind = "contract" ->
            {c \in Calls(Texts(Alphabet, MaxTextLen), 0..(Len(ws) - 1)) :
             c.first <= c.last}
      [] kind = "loose" ->
            Calls(Texts(Alphabet, MaxLooseText), -1..Len(ws))
      [] kind = "early" ->
            {c \in Calls(Texts(Alphabet, MaxLooseText),
                         0..Max(0, Len(ws) - 1)) : c.first <= c.last}
      [] kind = "multi" ->
            {c \in Calls(Texts(Alphabet, MaxLooseText), 0..(Len(ws) - 1)) :
             c.first <= c.last}
      [] kind = "examples" ->
            {c \in Calls(ExampleTexts \cup Texts(Alphabet, MaxTextLen),
                         0..(Len(ws) - 1)) : c.first <= c.last}
            \cup {[word |-> T_shershehishers, first |-> 0,
                   last |-> Len(T_shershehishers) - 1]}

\* The arguments of the second call: a short text and the whole range.
OtherCallsOf(ws) ==
    {c \in CallsOf("multi", ws) : c.first = 0 /\ c.last = Len(ws) - 1}

\* A caller that does not wait for build before it calls traverse.
InitEarly ==
    /\ words \in WordLists(Alphabet, MaxLooseLen)
    /\ h_score = [j \in 1..Len(words) |-> j]
    /\ caller = "early"
    /\ budget = 2
    /\ Constructed

\* A caller that builds and then has two calls of traverse in progress.
InitMulti ==
    /\ words \in WordLists(Alphabet, MaxLooseLen)
    /\ h_score = [j \in 1..Len(words) |-> j]
    /\ caller = "multi"
    /\ budget = 1
    /\ Constructed

\* The examples, and beside them every short pattern list with the scores
\* 1, 2, ... as in the tests.
InitScen ==
    /\ \E e \in Examples \cup
               {[words |-> ws, h_score |-> [j \in 1..Len(ws) |-> j]] :
                ws \in WordLists(Alphabet, MaxScenLen)} :
        words = e.words /\ h_score = e.h_score
    /\ caller = "examples"
    /\ budget = 1
    /\ Constructed

----
\* exoticst/full_bin_tree_for_rmq.py.  A list is a sequence; Python's t[idx]
\* is t[idx + 1].

\* float('inf'): a number above every element and every sum that occurs;
\* -float('inf') is -inf.  min and max only compare it, nothing adds to it.
inf == 1000

\* The value of ignore the module documents for f, lines 21-31.
ignore_of(f) ==
    CASE f = "min" -> inf
      [] f = "max" -> -inf
      [] f = "sum" -> 0

\* f([x, y]) of lines 91 and 123, f((x, y)) of line 149.
f_pair(f, x, y) ==
    CASE f = "min" -> Min(x, y)
      [] f = "max" -> Max(x, y)
      [] f = "sum" -> x + y

\* int(ceil(log2(len))), line 96, for len >= 1.
RECURSIVE ceil_log2(_)
ceil_log2(len) == IF len <= 1 THEN 0 ELSE 1 + ceil_log2((len + 1) \div 2)

\* 2 ** k, line 96.
RECURSIVE pow2(_)
pow2(k) == IF k = 0 THEN 1 ELSE 2 * pow2(k - 1)

\* _bld, lines 83-93, with start and end written st and en, for st <= en
\* (as in every call made for an array that is not empty): the list t after
\* the call; the value returned is its t[idx].
RECURSIVE _bld(_, _, _, _, _, _)
_bld(a, f, st, en, t, idx) ==
    IF st = en THEN [t EXCEPT ![idx + 1] = a[st + 1]]
    ELSE LET mid == st + (en - st) \div 2
             shift == idx * 2
             t1 == _bld(a, f, st, mid, t, shift + 1)
             t2 == _bld(a, f, mid + 1, en, t1, shift + 2)
         IN  [t2 EXCEPT ![idx + 1] = f_pair(f, t1[shift + 2], t2[shift + 3])]

\* build_helper_tree, lines 95-100, for an array that is not empty.
build_helper_tree(a, f, ignore) ==
    LET len == Len(a)
        d == pow2(ceil_log2(len))
        m == 2 * d - 1
        fbt == [j \in 1..m |-> ignore]
    IN  _bld(a, f, 0, len - 1, fbt, 0)

\* _rmq, lines 115-124.
RECURSIVE _rmq(_, _, _, _, _, _, _, _)
_rmq(t, q_st, q_end, f, ignore, st, en, idx) ==
    IF en < q_st \/ q_end < st THEN ignore
    ELSE IF q_st <= st /\ en <= q_end THEN t[idx + 1]
    ELSE LET mid == st + (en - st) \div 2
             shift == idx * 2
         IN  f_pair(f, _rmq(t, q_st, q_end, f, ignore, st, mid, shift + 1),
                       _rmq(t, q_st, q_end, f, ignore, mid + 1, en,
                            shift + 2))

\* rmq, lines 126-128: what it raised and the value it returned.
rmq_root(len_a, t, q_st, q_end, f, ignore) ==
    IF q_st < 0 \/ q_end > len_a - 1 \/ q_st > q_end
    THEN [exc |-> "RuntimeError", val |-> None]
    ELSE [exc |-> "none", val |-> t[1]]
rmq(len_a, t, q_st, q_end, f, ignore) ==
    IF q_st < 0 \/ q_end > len_a - 1 \/ q_st > q_end
    THEN [exc |-> "RuntimeError", val |-> None]
    ELSE [exc |-> "none",
          val |-> _rmq(t, q_st, q_end, f, ignore, 0, len_a - 1, 0)]

\* The while loop of update, lines 148-156.
RECURSIVE update_from(_, _, _, _, _, _, _)
update_from(t, idx_change, change, f, s, e, idx) ==
    IF s <= e /\ idx < Len(t)
    THEN LET t1 == [t EXCEPT ![idx + 1] = f_pair(f, @, change)]
             mid == s + (e - s) \div 2
         IN  IF idx_change <= mid
             THEN update_from(t1, idx_change, change, f, s, mid, 2 * idx + 1)
             ELSE update_from(t1, idx_change, change, f, mid + 1, e,
                              2 * idx + 2)
    ELSE t

\* update of full_bin_tree_for_rmq.py, lines 144-157: what it raised and the
\* list t as it leaves it (and returns it).
update_tree(len_a, t, idx_change, change, f, ignore) ==
    IF ~(0 <= idx_change /\ idx_change <= len_a - 1)
    THEN [exc |-> "IndexError", val |-> t]
    ELSE [exc |-> "none",
          val |-> update_from(t, idx_change, change, f, 0, len_a - 1, 0)]

\* The change the module documents for a new value of a[j], lines 33-40:
\* the new value for min and max, new_value - a[j] for sum.
change_of(f, a, j, new_value) ==
    IF f = "sum" THEN new_value - a[j + 1] ELSE new_value

\* The array of the tests.
A_test == <<5, 3, 7, 4, 8>>

\* The arrays that are not empty, of at most MaxArrLen of RmqValues, and
\* the array of the tests.
RmqArrays == UNION {[1..k -> RmqValues] : k \in 1..MaxArrLen} \cup {A_test}

\* A caller that holds an array and the name of f and has built no tree yet.
InitRmq ==
    /\ NoAutomaton /\ NoHeap /\ NoDijkstra /\ NoBit
    /\ caller = "rmq"
    /\ rq_f \in {"min", "max", "sum"}
    /\ rq_a \in RmqArrays
    /\ rq_t = <<>> /\ rq_upd = 0
    /\ rq_ret = [op |-> "none"]

----
\* The operations, step by step.

\* Automaton.build is entered (line 102, before the first iteration).
BuildCall ==
    /\ pc = "new"
    /\ pc' = "add"
    /\ b_i' = 0
    /\ UNCHANGED <<not_auto, other, words, h_score, caller, budget, nodes, q_iter, q, nxt, q_pos,
                   ch_pos,                   word, first, last, t_i, n, res, ret>>

\* One iteration of build's loop over enumerate(zip(words, h_score)),
\* lines 102-103: zip stops at the shorter list.
AddWord ==
    /\ pc = "add"
    /\ b_i < Min(Len(words), Len(h_score))
    /\ nodes' = _add_word(nodes, words[b_i + 1], b_i, h_score[b_i + 1])
    /\ b_i' = b_i + 1
    /\ UNCHANGED <<not_auto, other, words, h_score, caller, budget, pc, q_iter, q, nxt, q_pos,
                   ch_pos,                   word, first, last, t_i, n, res, ret>>

\* zip is exhausted and _build_fail starts, lines 69-73: the root fails to
\* itself, its children fail to it and make the first q.
BuildFailInit ==
    /\ pc = "add"
    /\ b_i >= Min(Len(words), Len(h_score))
    /\ nodes' = init_fail(nodes)
    /\ q' = [j \in 1..Len(nodes[root].d_children) |->
                nodes[root].d_children[j][2]]
    /\ pc' = "fail"
    /\ q_iter' = <<>> /\ nxt' = <<>> /\ q_pos' = 1 /\ ch_pos' = 1
    /\ UNCHANGED <<not_auto, other, words, h_score, caller, budget, b_i,
                   word, first, last, t_i, n, res, ret>>

\* `while q` (line 75) with the for loop of the previous level finished: a
\* non-empty q starts a level (nxt = [], for n in q), an empty one ends
\* _build_fail and build returns None.
FailLevel ==
    /\ pc = "fail"
    /\ q_pos > Len(q_iter)
    /\ IF q # <<>>
       THEN /\ q_iter' = q /\ nxt' = <<>> /\ q_pos' = 1 /\ ch_pos' = 1
            /\ UNCHANGED <<pc, ret>>
       ELSE /\ pc' = "built"
            /\ ret' = [op |-> "build", exc |-> "none"]
            /\ UNCHANGED <<q_iter, nxt, q_pos, ch_pos>>
    /\ UNCHANGED <<not_auto, other, words, h_score, caller, budget, nodes, b_i, q,
                   word, first, last, t_i, n, res>>

\* One iteration of `for k, v in n.children()`, lines 78-92.  From the second
\* n of a level on, q names the list nxt (line 93) and sees its appends.
FailChild ==
    /\ pc = "fail"
    /\ q_pos <= Len(q_iter)
    /\ ch_pos <= Len(nodes[q_iter[q_pos]].d_children)
    /\ LET p == q_iter[q_pos]
           k == nodes[p].d_children[ch_pos][1]
           v == nodes[p].d_children[ch_pos][2]
       IN  /\ nxt' = Append(nxt, v)
           /\ q' = IF q_pos > 1 THEN Append(nxt, v) ELSE q
           /\ nodes' = set_fail(nodes, p, k, v)
    /\ ch_pos' = ch_pos + 1
    /\ UNCHANGED <<not_auto, other, words, h_score, caller, budget, pc, b_i, q_iter, q_pos,
                   word, first, last, t_i, n, res, ret>>

\* The children of n are done: q = nxt (line 93) and the for loop moves on.
FailNode ==
    /\ pc = "fail"
    /\ q_pos <= Len(q_iter)
    /\ ch_pos > Len(nodes[q_iter[q_pos]].d_children)
    /\ q' = nxt
    /\ q_pos' = q_pos + 1
    /\ ch_pos' = 1
    /\ UNCHANGED <<not_auto, other, words, h_score, caller, budget, nodes, pc, b_i, q_iter, nxt,
                   word, first, last, t_i, n, res, ret>>

\* Automaton.traverse is entered with arguments of the caller's choice,
\* lines 118-119.  Nothing in the class keeps a caller from entering it on the
\* object Automaton() returned, before build (pc = "early" then).
TraverseCall ==
    /\ pc = "built" \/ (pc = "new" /\ caller = "early")
    /\ budget > 0
    /\ budget' = budget - 1
    /\ \E c \in CallsOf(caller, words) :
        /\ word' = c.word
        /\ first' = c.first
        /\ last' = c.last
    /\ n' = start(n, res)[1]
    /\ res' = start(n, res)[2]
    /\ t_i' = 0
    /\ pc' = IF pc = "new" THEN "early" ELSE "trav"
    /\ UNCHANGED <<not_auto, other, words, h_score, caller, nodes, b_i, q_iter, q, nxt, q_pos,
                   ch_pos, ret>>

\* One iteration of traverse's loop over the text, lines 120-132; an
\* AttributeError raised by the walk ends the call.
TraverseChar ==
    /\ pc \in {"trav", "early"}
    /\ t_i < Len(word)
    /\ nodes' = trav_nodes(nodes, n, word[t_i + 1])
    /\ LET s == trav_char(nodes, n, res, word[t_i + 1], first, last) IN
       IF s[1] = None
       THEN /\ pc' = (IF pc = "early" THEN "new" ELSE "built")
            /\ ret' = [op |-> "traverse", exc |-> "AttributeError"]
            /\ UNCHANGED <<n, res, t_i>>
       ELSE /\ n' = s[1]
            /\ res' = s[2]
            /\ t_i' = t_i + 1
            /\ UNCHANGED <<pc, ret>>
    /\ UNCHANGED <<not_auto, other, words, h_score, caller, budget, b_i,
                   q_iter, q, nxt, q_pos, ch_pos, word, first, last>>

\* The text is consumed: return res, line 133.
TraverseReturn ==
    /\ pc \in {"trav", "early"}
    /\ t_i >= Len(word)
    /\ ret' = [op |-> "traverse", exc |-> "none", val |-> res]
    /\ pc' = (IF pc = "early" THEN "new" ELSE "built")
    /\ UNCHANGED <<not_auto, other, words, h_score, caller, budget, nodes, b_i, q_iter, q, nxt, q_pos,
                   ch_pos, word, first, last, t_i, n, res>>

\* A second call of traverse is entered on the built automaton while the
\* first caller is anywhere after build, lines 118-119.
OtherCall ==
    /\ caller = "multi"
    /\ pc \in {"built", "trav"}
    /\ other.pc = "idle"
    /\ \E c \in OtherCallsOf(words) :
        other' = [pc |-> "trav", word |-> c.word, first |-> c.first,
                  last |-> c.last, t_i |-> 0,
                  n |-> start(n, res)[1], res |-> start(n, res)[2]]
    /\ UNCHANGED <<not_auto, words, h_score, caller, budget, nodes, pc, b_i,
                   q_iter, q, nxt, q_pos, ch_pos, word, first, last, t_i, n,
                   res, ret>>

\* One iteration of the second call's loop over its text, lines 120-132.
OtherChar ==
    /\ other.pc = "trav"
    /\ other.t_i < Len(other.word)
    /\ nodes' = trav_nodes(nodes, other.n, other.word[other.t_i + 1])
    /\ LET s == trav_char(nodes, other.n, other.res,
                          other.word[other.t_i + 1], other.first, other.last)
       IN  other' = IF s[1] = None
                    THEN [other EXCEPT !.pc = "raised"]
                    ELSE [other EXCEPT !.n = s[1], !.res = s[2],
                                       !.t_i = @ + 1]
    /\ UNCHANGED <<not_auto, words, h_score, caller, budget, pc, b_i,
                   q_iter, q, nxt, q_pos, ch_pos, word, first, last, t_i, n,
                   res, ret>>

\* The second call has consumed its text and returns its res, line 133.
OtherReturn ==
    /\ other.pc = "trav"
    /\ other.t_i >= Len(other.word)
    /\ other' = [other EXCEPT !.pc = "done"]
    /\ UNCHANGED <<not_auto, words, h_score, caller, budget, nodes, pc, b_i,
                   q_iter, q, nxt, q_pos, ch_pos, word, first, last, t_i, n,
                   res, ret>>

\* The UpdatableHeap object of the state.
self_heap == [heap |-> heap, register |-> register]

\* push(heap_key, key, data) with a key no element of the heap has.
Push ==
    /\ Len(heap) + 1 \in HeapSizes
    /\ \E e \in Elements :
        /\ e[2] \notin KeysOf(heap)
        /\ LET hp == push(self_heap, e[1], e[2], e[3]) IN
           /\ heap' = hp.heap
           /\ register' = hp.register
        /\ h_ret' = [op |-> "push", exc |-> "none", arg |-> e]
    /\ UNCHANGED <<auto_vars, dij_vars, bit_vars, rmq_vars>>

\* pop(): self.heap[0] raises IndexError on an empty heap.
Pop ==
    /\ IF heap = <<>>
       THEN /\ h_ret' = [op |-> "pop", exc |-> "IndexError"]
            /\ UNCHANGED <<heap, register>>
       ELSE LET p == pop(self_heap) IN
            /\ heap' = p[1].heap
            /\ register' = p[1].register
            /\ h_ret' = [op |-> "pop", exc |-> "none", val |-> p[2]]
    /\ UNCHANGED <<auto_vars, dij_vars, bit_vars, rmq_vars>>

\* decrease(new_heap_key, key, data) with a heap_key smaller than that of
\* any element of the heap with the key.
Decrease ==
    /\ \E e \in Elements :
        /\ \A j \in 1..Len(heap) : heap[j][2] = e[2] => e[1] < heap[j][1]
        /\ Len(heap) + 1 \in HeapSizes \/ ~not_idx(reg_get(register, e[2]))
        /\ LET hp == decrease(self_heap, e[1], e[2], e[3]) IN
           /\ heap' = hp.heap
           /\ register' = hp.register
        /\ h_ret' = [op |-> "decrease", exc |-> "none", arg |-> e]
    /\ UNCHANGED <<auto_vars, dij_vars, bit_vars, rmq_vars>>

\* update(new_heap_key, key, data): self.register[key] raises KeyError for a
\* key the register does not hold.
Update ==
    /\ \E e \in Elements :
        IF e[2] \notin DOMAIN register
        THEN /\ h_ret' = [op |-> "update", exc |-> "KeyError", arg |-> e]
             /\ UNCHANGED <<heap, register>>
        ELSE LET hp == update(self_heap, e[1], e[2], e[3]) IN
             /\ heap' = hp.heap
             /\ register' = hp.register
             /\ h_ret' = [op |-> "update", exc |-> "none", arg |-> e]
    /\ UNCHANGED <<auto_vars, dij_vars, bit_vars, rmq_vars>>

\* sorted_iterator() consumed to its end; heap_store is its local.
SortedIterator ==
    /\ LET r == sorted_iterator(self_heap) IN
       /\ heap' = r[1].heap
       /\ register' = r[1].register
       /\ h_ret' = [op |-> "sorted_iterator", exc |-> "none", val |-> r[2],
                    lst |-> <<>>]
    /\ UNCHANGED <<auto_vars, dij_vars, bit_vars, rmq_vars>>

\* heapsort(lst) with a list of elements of keys that are new to the heap.
Heapsort ==
    /\ \E lst \in SortLists(KeysOf(heap), MaxSortLen) :
        LET r == heapsort(self_heap, lst) IN
        /\ heap' = r[1].heap
        /\ register' = r[1].register
        /\ h_ret' = [op |-> "heapsort", exc |-> "none", val |-> r[2],
                     lst |-> lst]
    /\ UNCHANGED <<auto_vars, dij_vars, bit_vars, rmq_vars>>

\* shortest_paths(s) is entered, lines 62-64.
ShortestPathsCall ==
    /\ d_pc = "new"
    /\ LET vd == HeapElement(0, d_s, None)
           hp == push(self_heap, vd[1], vd[2], vd[3])
       IN  /\ heap' = hp.heap
           /\ register' = hp.register
           /\ vds' = reg_put(vds, vd[2], vd)
    /\ d_pc' = "loop"
    /\ UNCHANGED <<auto_vars, bit_vars, rmq_vars, h_ret, edges, d_s, g, prev, current,
                   d_pos, extracted, d_ret>>

\* `while len(self.queue)` with a queue that is not empty, lines 65-68: pop,
\* add to prev, and read adj_list[current.key].
QueuePop ==
    /\ d_pc = "loop"
    /\ heap # <<>>
    /\ LET p == pop(self_heap) IN
       /\ heap' = p[1].heap
       /\ register' = p[1].register
       /\ current' = p[2]
       /\ prev' = prev \cup {p[2][2]}
       /\ extracted' = Append(extracted, p[2][2])
       /\ g' = [g EXCEPT !.adj_list = adj_touch(@, p[2][2])]
    /\ d_pos' = 1
    /\ d_pc' = "relax"
    /\ UNCHANGED <<auto_vars, bit_vars, rmq_vars, h_ret, edges, d_s, vds, d_ret>>

\* One iteration of the for loop over adj_list[current.key].items().
Relax ==
    /\ d_pc = "relax"
    /\ d_pos <= Len(g.adj_list[current[2]])
    /\ LET item == g.adj_list[current[2]][d_pos]
           r == relax(vds, self_heap, prev, current, item[1], item[2])
       IN  /\ vds' = r[1]
           /\ heap' = r[2].heap
           /\ register' = r[2].register
    /\ d_pos' = d_pos + 1
    /\ UNCHANGED <<auto_vars, bit_vars, rmq_vars, h_ret, edges, d_s, g, prev, current,
                   d_pc, extracted, d_ret>>

\* The for loop is exhausted: back to the while.
RelaxDone ==
    /\ d_pc = "relax"
    /\ d_pos > Len(g.adj_list[current[2]])
    /\ d_pc' = "loop"
    /\ UNCHANGED <<auto_vars, bit_vars, rmq_vars, heap_vars, edges, d_s, g, prev, vds,
                   current, d_pos, extracted, d_ret>>

\* The queue is empty: shortest_paths returns its dict, line 75.
ShortestPathsReturn ==
    /\ d_pc = "loop"
    /\ heap = <<>>
    /\ d_ret' = [op |-> "shortest_paths", type |-> "dict",
                 val |-> dist_map(vds)]
    /\ d_pc' = "returned"
    /\ UNCHANGED <<auto_vars, bit_vars, rmq_vars, heap_vars, edges, d_s, g, prev, vds,
                   current, d_pos, extracted>>

\* The call of shortest_paths that returned was line 86 of
\* find_shortest_paths, called by str_of_sorted_shortest_paths, which
\* returns its string, lines 88-90 and 100-101.
StrOfSortedReturn ==
    /\ d_pc = "returned"
    /\ LET sws == find_shortest_paths(g.v, vds, d_s, 1) IN
       d_ret' = [op |-> "str_of_sorted_shortest_paths", type |-> "str",
                 val |-> str_of_sorted_shortest_paths(sws),
                 sws |-> sws, dict |-> d_ret.val]
    /\ d_pc' = "str"
    /\ UNCHANGED <<auto_vars, bit_vars, rmq_vars, heap_vars, edges, d_s, g, prev, vds,
                   current, d_pos, extracted>>

\* Bit(size), lines 40-47.  A constructor that raises leaves no object.
BitNew ==
    /\ tree_lst = <<>>
    /\ \E size \in BitLengths :
         LET b == Bit(size) IN
         /\ tree_lst' = b.tree_lst
         /\ arr' = IF b.exc = "none" THEN zeros(size) ELSE arr
         /\ bit_n' = IF b.exc = "none" THEN size ELSE bit_n
         /\ bit_ret' = [op |-> "Bit", exc |-> b.exc, n |-> size]
    /\ UNCHANGED <<auto_vars, heap_vars, dij_vars, rmq_vars>>

\* bit.init_with_list(lst), lines 49-61.
InitWithList ==
    /\ tree_lst # <<>>
    /\ \E lst \in BitLists :
         LET r == init_with_list(tree_lst, lst) IN
         /\ tree_lst' = r.tree_lst
         /\ arr' = IF r.exc = "none" THEN lst ELSE arr
         /\ bit_ret' = [op |-> "init_with_list", exc |-> r.exc, lst |-> lst]
    /\ UNCHANGED <<auto_vars, heap_vars, dij_vars, rmq_vars, bit_n>>

\* bit.add_at(idx, increment), lines 63-74, with idx an index of the array.
AddAt ==
    /\ tree_lst # <<>>
    /\ \E idx \in 0..(Len(arr) - 1), increment \in Increments :
         /\ arr[idx + 1] + increment \in BitRange
         /\ tree_lst' = add_at(tree_lst, idx, increment)
         /\ arr' = [arr EXCEPT ![idx + 1] = @ + increment]
    /\ bit_ret' = [op |-> "add_at", exc |-> "none"]
    /\ UNCHANGED <<auto_vars, heap_vars, dij_vars, rmq_vars, bit_n>>

\* bit.range_sum(i, j), lines 90-97, with i <= j indexes of the array.
RangeSum ==
    /\ tree_lst # <<>>
    /\ \E j \in 0..(Len(arr) - 1) : \E i \in 0..j :
         bit_ret' = [op |-> "range_sum", exc |-> "none", i |-> i, j |-> j,
                     val |-> range_sum(tree_lst, i, j)]
    /\ UNCHANGED <<auto_vars, heap_vars, dij_vars, rmq_vars, tree_lst, arr, bit_n>>

\* bit.element(j), lines 99-105, with j an index of the array.
Element ==
    /\ tree_lst # <<>>
    /\ \E j \in 0..(Len(arr) - 1) :
         bit_ret' = [op |-> "element", exc |-> "none", j |-> j,
                     val |-> element(tree_lst, j)]
    /\ UNCHANGED <<auto_vars, heap_vars, dij_vars, rmq_vars, tree_lst, arr, bit_n>>

\* t = build_helper_tree(a, f, ignore), lines 75-100.
BuildHelperTree ==
    /\ rq_f # "none" /\ rq_t = <<>>
    /\ rq_t' = build_helper_tree(rq_a, rq_f, ignore_of(rq_f))
    /\ rq_ret' = [op |-> "build_helper_tree", exc |-> "none"]
    /\ UNCHANGED <<auto_vars, heap_vars, dij_vars, bit_vars, rq_f, rq_a,
                   rq_upd>>

\* rmq(len(a), t, q_st, q_end, f, ignore), lines 103-128, with any range
\* from one below the first index to one above the last.
RmqCall ==
    /\ rq_t # <<>>
    /\ \E q_st \in -1..(Len(rq_a) - 1), q_end \in 0..Len(rq_a) :
         LET r == rmq(Len(rq_a), rq_t, q_st, q_end, rq_f, ignore_of(rq_f)) IN
         rq_ret' = [op |-> "rmq", exc |-> r.exc, val |-> r.val,
                    q_st |-> q_st, q_end |-> q_end]
    /\ UNCHANGED <<auto_vars, heap_vars, dij_vars, bit_vars, rq_f, rq_a, rq_t,
                   rq_upd>>

\* a[j] = new_value and t = update(len(a), t, j, change, f, ignore) with the
\* change the module documents, lines 131-157; an index out of bounds raises
\* and the array is left alone.
UpdateCall ==
    /\ rq_t # <<>>
    /\ rq_upd < MaxUpdates
    /\ \E j \in -1..Len(rq_a), new_value \in RmqValues :
         LET in_a == 0 <= j /\ j <= Len(rq_a) - 1
             change == IF in_a THEN change_of(rq_f, rq_a, j, new_value)
                       ELSE new_value
             r == update_tree(Len(rq_a), rq_t, j, change, rq_f,
                              ignore_of(rq_f))
         IN  /\ rq_t' = r.val
             /\ rq_a' = IF in_a THEN [rq_a EXCEPT ![j + 1] = new_value]
                        ELSE rq_a
             /\ rq_upd' = IF in_a THEN rq_upd + 1 ELSE rq_upd
             /\ rq_ret' = [op |-> "update", exc |-> r.exc]
    /\ UNCHANGED <<auto_vars, heap_vars, dij_vars, bit_vars, rq_f>>

Next ==
    \/ BuildCall
    \/ AddWord
    \/ BuildFailInit
    \/ FailLevel
    \/ FailChild
    \/ FailNode
    \/ TraverseCall
    \/ TraverseChar
    \/ TraverseReturn

Spec == Init /\ [][Next]_vars

SpecLoose == InitLoose /\ [][Next]_vars

SpecScen == InitScen /\ [][Next]_vars

\* The examples with every step that can be taken taken in the end: build
\* and traverse are sequential code that runs on once it is entered.
SpecScenFair == InitScen /\ [][Next]_vars /\ WF_vars(Next)

\* A caller that may traverse before it builds.
SpecEarly == InitEarly /\ [][Next]_vars

\* Two calls of traverse on one built automaton, their steps interleaved.
NextMulti ==
    \/ BuildCall
    \/ AddWord
    \/ BuildFailInit
    \/ FailLevel
    \/ FailChild
    \/ FailNode
    \/ TraverseCall
    \/ TraverseChar
    \/ TraverseReturn
    \/ OtherCall
    \/ OtherChar
    \/ OtherReturn

SpecMulti == InitMulti /\ [][NextMulti]_vars

\* An UpdatableHeap used as a priority queue.
NextHeap ==
    \/ Push
    \/ Pop
    \/ Decrease
    \/ Update

SpecHeap == InitHeap /\ [][NextHeap]_vars

\* A DijkstraSearch on a graph made of a list of edges.
NextDijkstra ==
    \/ ShortestPathsCall
    \/ QueuePop
    \/ Relax
    \/ RelaxDone
    \/ ShortestPathsReturn
    \/ StrOfSortedReturn

SpecDijkstra == InitDijkstra /\ [][NextDijkstra]_vars

\* An UpdatableHeap used for sorting.
NextSort ==
    \/ Push
    \/ SortedIterator
    \/ Heapsort

SpecSort == InitSort /\ [][NextSort]_vars

\* A Bit that is constructed, initialised, updated and queried.
NextBit ==
    \/ BitNew
    \/ InitWithList
    \/ AddAt
    \/ RangeSum
    \/ Element

SpecBit == InitBit /\ [][NextBit]_vars

\* A tree for range queries that is built, queried and updated.
NextRmq ==
    \/ BuildHelperTree
    \/ RmqCall
    \/ UpdateCall

SpecRmq == InitRmq /\ [][NextRmq]_vars

----
\* What the claims speak of.

\* traverse has returned and no later call has been entered: word, first and
\* last are the arguments of the call that returned ret.
Returned == pc = "built" /\ ret.op = "traverse"

\* The value of a mapping at p, an absent key counting as 0.
Val(m, p) == IF p \in DOMAIN m THEN m[p] ELSE 0

\* The number of positions at which p occurs in text, overlapping or not.
Occ(p, text) ==
    Cardinality({k \in 1..(Len(text) - Len(p) + 1) :
                 SubSeq(text, k, k + Len(p) - 1) = p})

\* The ordinals within [f, l] at which the pattern list ws has p.
Ords(ws, p, f, l) == {i \in 0..(Len(ws) - 1) : f <= i /\ i <= l /\ ws[i + 1] = p}

\* The sum of the scores hs of the ordinals below j of ws within [f, l]
\* that carry p.
RECURSIVE ScoreSum(_, _, _, _, _, _)
ScoreSum(ws, hs, p, f, l, j) ==
    IF j = 0 THEN 0
    ELSE (IF (j - 1) \in Ords(ws, p, f, l) THEN hs[j] ELSE 0)
         + ScoreSum(ws, hs, p, f, l, j - 1)

\* The mapping the contract asks of traverse(text, f, l) for patterns ws with
\* scores hs, from the occurrences of the patterns in the text.
Expected(ws, hs, text, f, l) ==
    LET keys == {p \in {ws[j] : j \in 1..Len(ws)} :
                 Ords(ws, p, f, l) # {} /\ Occ(p, text) > 0}
    IN  [p \in keys |-> ScoreSum(ws, hs, p, f, l, Len(ws)) * Occ(p, text)]

\* The per-key additive merge of two mappings.
MergeMaps(m1, m2) ==
    [k \in (DOMAIN m1) \cup (DOMAIN m2) |-> Val(m1, k) + Val(m2, k)]

\* The merge of the single-ordinal traversals [i, i] of text for i < j.
RECURSIVE MergeSingles(_, _, _)
MergeSingles(ns, text, j) ==
    IF j = 0 THEN EmptyMap
    ELSE MergeMaps(MergeSingles(ns, text, j - 1),
                   traverse(ns, text, j - 1, j - 1))

ValidRange == 0 <= first /\ first <= last /\ last <= Len(words) - 1

----
\* C1: for non-empty patterns with parallel scores and a range
\* 0 <= first <= last <= n-1, traverse returns the mapping whose keys are the
\* patterns with an ordinal in range and an occurrence in the text, each with
\* the sum over those ordinals of score times number of occurrences.
C1_TraverseSumsScores ==
    (Returned /\ ValidRange /\ Len(words) = Len(h_score))
        => ret.val = Expected(words, h_score, word, first, last)

\* A call returned a key that two ordinals in range carry and that occurs
\* twice in the text.
C1_Witness ==
    /\ Returned /\ ValidRange
    /\ \E p \in DOMAIN ret.val :
        /\ Cardinality(Ords(words, p, first, last)) >= 2
        /\ Occ(p, word) >= 2
        /\ ret.val[p] # 0

\* C4 as stated: a pattern without an occurrence in range is no key, and no
\* key carries the value 0, whatever the scores.
C4_NoZeroValue ==
    Returned =>
        \A p \in (DOMAIN ret.val) \cup {words[j] : j \in 1..Len(words)} :
            /\ (Ords(words, p, first, last) = {} \/ Occ(p, word) = 0)
                    => p \notin DOMAIN ret.val
            /\ p \in DOMAIN ret.val => ret.val[p] # 0

\* C4, amended: a pattern without an occurrence in range is never a key; a
\* key carries the value 0 exactly when the scores of its ordinals in range
\* sum to 0, so never when they are all positive.
C4_AbsentOrScored ==
    Returned =>
        \A p \in (DOMAIN ret.val) \cup {words[j] : j \in 1..Len(words)} :
            /\ (Ords(words, p, first, last) = {} \/ Occ(p, word) = 0)
                    => p \notin DOMAIN ret.val
            /\ p \in DOMAIN ret.val =>
                /\ (ret.val[p] = 0
                        <=> ScoreSum(words, h_score, p, first, last, Len(words)) = 0)
                /\ (\A i \in Ords(words, p, first, last) : h_score[i + 1] > 0)
                        => ret.val[p] > 0

\* A call returned a key with the value 0 while a pattern that occurs in the
\* text, but at no ordinal in range, is no key.
C4_Witness ==
    /\ Returned
    /\ \E p \in DOMAIN ret.val : ret.val[p] = 0
    /\ \E j \in 1..Len(words) :
        /\ Occ(words[j], word) > 0
        /\ words[j] \notin DOMAIN ret.val

\* The traversal of the returned call's text over [f2, l2] gives every
\* pattern at least the score the call returned.
NoLessOver(f2, l2) ==
    LET wide == traverse(nodes, word, f2, l2) IN
    \A p \in (DOMAIN ret.val) \cup (DOMAIN wide) : Val(ret.val, p) <= Val(wide, p)

\* C5 as stated: every range that contains [first, last] gives every pattern
\* a score at least as large, whatever the scores.
C5_RangeMonotone ==
    Returned =>
        \A f2 \in 0..first : \A l2 \in last..(Len(words) - 1) : NoLessOver(f2, l2)

\* C5, amended: the same when no score is negative.
C5_RangeMonotoneNonNeg ==
    (Returned /\ \A j \in 1..Len(h_score) : h_score[j] >= 0) =>
        \A f2 \in 0..first : \A l2 \in last..(Len(words) - 1) : NoLessOver(f2, l2)

\* With no negative score, a call returned a score that a wider range
\* strictly raises.
C5_Witness ==
    /\ Returned
    /\ \A j \in 1..Len(h_score) : h_score[j] >= 0
    /\ \E f2 \in 0..first : \E l2 \in last..(Len(words) - 1) :
        \E p \in DOMAIN ret.val :
            ret.val[p] > 0 /\ ret.val[p] < Val(traverse(nodes, word, f2, l2), p)

\* C6: the traversal over [0, n-1] equals the per-key additive merge of the
\* n traversals over [i, i].
C6_FullRangeIsMergeOfSingles ==
    (Returned /\ Len(words) >= 1 /\ first = 0 /\ last = Len(words) - 1)
        => ret.val = MergeSingles(nodes, word, Len(words))

\* A full-range call returned a key carried by two ordinals, beside a
\* second key.
C6_Witness ==
    /\ Returned /\ first = 0 /\ last = Len(words) - 1
    /\ Cardinality(DOMAIN ret.val) >= 2
    /\ \E p \in DOMAIN ret.val : Cardinality(Ords(words, p, first, last)) >= 2

----
\* The pattern lists as zip pairs them: the first min(len, len) of each.
Zipped == Min(Len(words), Len(h_score))
ZipWords == SubSeq(words, 1, Zipped)
ZipScores == SubSeq(h_score, 1, Zipped)

\* The entries of the output map of node id, each with its key.
EntriesOf(id) ==
    UNION {{<<key, nodes[id].output[key][j]>> :
                j \in 1..Len(nodes[id].output[key])} :
           key \in DOMAIN nodes[id].output}

AllEntries == UNION {EntriesOf(id) : id \in 1..Len(nodes)}

\* _build_fail has been entered: every pattern build takes is in the trie.
Inserted == pc \in {"fail", "built", "trav"}

\* C2 as stated: with lists of different lengths build raises
\* InvalidInputError, inserts no pattern and leaves no usable automaton.
C2_MismatchRaises ==
    Len(words) # Len(h_score) =>
        /\ Len(nodes) = 1
        /\ AllEntries = {}
        /\ pc \notin {"built", "trav"}
        /\ ret.op = "build" => ret.exc = "InvalidInputError"

\* C2, amended: build never raises on lists of different lengths; it inserts
\* the first min(len(patterns), len(scores)) patterns with their scores under
\* the ordinals 0, 1, ..., ignores the rest, and returns an automaton that
\* traverse answers from; with two empty lists it succeeds as well.
C2_ZipTruncates ==
    /\ Inserted =>
        AllEntries = {<<words[i + 1], <<i, h_score[i + 1]>>>> : i \in 0..(Zipped - 1)}
    /\ ret.op = "build" => ret.exc = "none"
    /\ Returned =>
        /\ ret.exc = "none"
        /\ ret.val = Expected(ZipWords, ZipScores, word, first, last)

\* build was given more patterns than scores and a later traverse returned
\* a match of a pattern it did take.
C2_Witness ==
    /\ Returned
    /\ Len(words) > Len(h_score)
    /\ Zipped >= 1
    /\ DOMAIN ret.val # {}

\* C3 as stated: traverse raises RangeError when first > last or an end of
\* the range lies outside [0, n-1].
C3_BadRangeRaises ==
    (Returned /\ ~ValidRange) => ret.exc = "RangeError"

\* C3, amended: traverse never raises RangeError; it takes any integers first
\* and last and returns the result for the ordinals of [first, last] that
\* exist: the empty mapping when first > last, and the result of the range
\* cut to [0, n-1] when an end lies outside.
C3_BadRangeFilters ==
    (Returned /\ ~ValidRange) =>
        /\ ret.exc = "none"
        /\ ret.val = IF first > last THEN EmptyMap
                     ELSE Expected(ZipWords, ZipScores, word,
                                   Max(first, 0), Min(last, Len(words) - 1))

\* A call with both ends outside the ordinals returned a match.
C3_Witness ==
    /\ Returned
    /\ first < 0 /\ last > Len(words) - 1
    /\ DOMAIN ret.val # {}

\* C10: build with two empty lists leaves the root alone, without outputs
\* and failing to itself, and traverse on it returns the empty mapping for
\* every text without raising.
C10_EmptyBuild ==
    (words = <<>> /\ h_score = <<>>) =>
        /\ pc \in {"built", "trav"} =>
            nodes = <<[label |-> "1", d_children |-> <<>>,
                       output |-> EmptyMap, fail |-> root]>>
        /\ ret.op = "build" => ret.exc = "none"
        /\ pc = "trav" => n = root /\ res = EmptyMap
        /\ Returned => ret.exc = "none" /\ ret.val = EmptyMap

\* traverse returned from a text of two characters on the automaton built
\* from the empty lists.
C10_Witness ==
    /\ words = <<>> /\ h_score = <<>>
    /\ Returned
    /\ Len(word) >= 2 /\ t_i = Len(word)

----
\* The text traverse has consumed so far.
Consumed == SubSeq(word, 1, t_i)

\* p ends at the end of t.
IsSuffix(p, t) ==
    Len(p) <= Len(t) /\ SubSeq(t, Len(t) - Len(p) + 1, Len(t)) = p

Patterns == {words[j] : j \in 1..Len(words)}

\* The node of the trie at the end of the path p[j..] from node id, None
\* when the path leaves the trie.
RECURSIVE NodeAt(_, _, _)
NodeAt(id, p, j) ==
    IF j > Len(p) THEN id
    ELSE LET ch == get_child(nodes[id], p[j])
         IN  IF ch = None THEN None ELSE NodeAt(ch, p, j + 1)

\* The entries (ordinal, score) of the pattern p, one for each place it has
\* in the pattern list, in the order of the list.
DirectList(p) ==
    SelectSeq([j \in 1..Len(words) |-> <<j - 1, h_score[j]>>],
              LAMBDA e : words[e[1] + 1] = p)

\* C7: a pattern is counted once for every position of the text where it
\* ends, also when it lies inside another pattern or overlaps itself: after
\* every character the node traverse stands on outputs exactly the patterns
\* that end there, once for each ordinal; so "aa" is counted twice in "aaa"
\* and "he" at every "she" and "her".
C7_CountedWhereItEnds ==
    /\ pc = "trav" =>
        LET ending == {p \in Patterns : IsSuffix(p, Consumed)} IN
        IF n = root THEN ending = {}
        ELSE /\ DOMAIN nodes[n].output = ending
             /\ \A p \in ending :
                 Len(nodes[n].output[p])
                     = Cardinality(Ords(words, p, 0, Len(words) - 1))
    /\ (Returned /\ words = <<W_aa>> /\ word = T_aaa)
            => ret.val = (W_aa :> 2 * h_score[1])
    /\ (Returned /\ words = Words_he /\ word = T_shershehishers /\ first = 0)
            => /\ Occ(W_he, word) = 3
               /\ ret.val[W_he] = 3 * h_score[1]

\* traverse stands on the node of "she", reached "he" through its failure
\* link, and outputs both.
C7_Witness ==
    /\ pc = "trav"
    /\ words = Words_he
    /\ n = NodeAt(root, W_she, 1)
    /\ nodes[n].fail = NodeAt(root, W_he, 1)
    /\ DOMAIN nodes[n].output = {W_she, W_he}

\* C8: a pattern listed at several ordinals keeps one (ordinal, score) entry
\* for each at its node, and traverse adds for every occurrence the scores
\* of those of them within [first, last], neither overwriting nor taking in
\* an ordinal out of range; patterns [a,b,c,aa,d,b] with scores 1..6, text
\* "caaab" and range [1,5] give {c:3, b:8, aa:8}.
C8_DuplicatesKeptAndSummed ==
    /\ Inserted =>
        \A p \in Patterns :
            /\ NodeAt(root, p, 1) # None
            /\ p \in DOMAIN nodes[NodeAt(root, p, 1)].output
            /\ nodes[NodeAt(root, p, 1)].output[p] = DirectList(p)
    /\ pc = "trav" =>
        \A p \in Patterns \cup DOMAIN res :
            /\ p \in DOMAIN res
                <=> (Ords(words, p, first, last) # {} /\ Occ(p, Consumed) > 0)
            /\ Val(res, p)
                = ScoreSum(words, h_score, p, first, last, Len(words))
                  * Occ(p, Consumed)
    /\ (Returned /\ words = Words_ab /\ h_score = Scores_ab
            /\ word = T_caaab /\ first = 1 /\ last = 5)
        => ret.val = (W_c :> 3 @@ W_b :> 8 @@ W_aa :> 8)

\* The call of test_traverse_3 returned, with b scored from both its
\* ordinals.
C8_Witness ==
    /\ Returned
    /\ words = Words_ab /\ h_score = Scores_ab
    /\ word = T_caaab /\ first = 1 /\ last = 5
    /\ Len(nodes[NodeAt(root, W_b, 1)].output[W_b]) = 2
    /\ ret.val[W_b] = 8

\* C9: on the automaton of [he, she, his, her, hers] with scores
\* [1,3,2,4,5], "shershehishers" over the whole list gives
\* {hers:10, she:9, her:8, he:3, his:2}, over [1,2] it gives {she:9, his:2},
\* and "xyz" over [0,2] gives the empty mapping.
C9_Examples ==
    (Returned /\ words = Words_he /\ h_score = Scores_he) =>
        /\ (word = T_shershehishers /\ first = 0 /\ last >= 4)
            => ret.val = (W_hers :> 10 @@ W_she :> 9 @@ W_her :> 8
                          @@ W_he :> 3 @@ W_his :> 2)
        /\ (word = T_shershehishers /\ first = 1 /\ last = 2)
            => ret.val = (W_she :> 9 @@ W_his :> 2)
        /\ (word = T_xyz /\ first = 0 /\ last = 2)
            => ret.val = EmptyMap

\* The call of test_traverse_2 returned its two keys.
C9_Witness ==
    /\ Returned
    /\ words = Words_he /\ h_score = Scores_he
    /\ word = T_shershehishers /\ first = 1 /\ last = 2
    /\ DOMAIN ret.val = {W_she, W_his}

----
\* The automaton after build: read-only, complete, without memory.

\* C11: from the state build returns in, no step of any call of traverse
\* changes a node: not its children, not its fail link, not its outputs map,
\* to which no read adds an empty entry.
C11_TraverseReadOnly ==
    [][(pc \in {"built", "trav"}) => (nodes' = nodes)]_vars

\* Two calls have walked the automaton and both found patterns.
C11_Witness ==
    /\ Returned /\ other.pc = "done"
    /\ DOMAIN ret.val # {} /\ DOMAIN other.res # {}
    /\ Len(nodes) >= 3

\* Every node's fail link is set.
FailSet == \A id \in 1..Len(nodes) : nodes[id].fail # None

\* The automaton is as Automaton() made it.
Unbuilt == nodes = <<Node("1")>>

\* C12 as stated: traverse only ever runs on an automaton whose fail links
\* are all set, and so no call of traverse ends in the AttributeError of a
\* read through an unset fail link.
C12_OnlyAfterBuild ==
    /\ (pc \in {"trav", "early"}) => FailSet
    /\ (ret.op = "traverse") => (ret.exc = "none")

\* C12 as the code has it: traverse runs either on the automaton as
\* Automaton() made it, before build was entered (there a non-empty text
\* raises AttributeError at root.fail and the empty text returns the empty
\* mapping), or after build has returned, with every fail link set and
\* without AttributeError; never between the two.
C12_EarlyOrBuilt ==
    /\ (pc = "early") => Unbuilt
    /\ (pc \in {"trav", "built"}) => FailSet
    /\ (pc = "new" /\ ret.op = "traverse") =>
          /\ (ret.exc = "AttributeError") <=> (word # <<>>)
          /\ (ret.exc = "none") => (ret.val = EmptyMap)
    /\ Returned => (ret.exc = "none")

\* A call made before build was given a text and has raised.
C12_Witness ==
    /\ pc = "new" /\ Unbuilt
    /\ ret.op = "traverse" /\ ret.exc = "AttributeError"
    /\ Len(word) = MaxLooseText

\* C13: what a call of traverse returns is the mapping fixed by the
\* patterns, the scores, the text and the range alone, whatever other call
\* ran before it or takes its steps between this call's steps; so two calls
\* with the same arguments return the same mapping.
C13_Deterministic ==
    /\ Returned =>
          /\ ret.exc = "none"
          /\ ret.val = Expected(words, h_score, word, first, last)
    /\ (other.pc = "done") =>
          other.res = Expected(words, h_score, other.word, other.first,
                               other.last)
    /\ (/\ Returned /\ other.pc = "done"
        /\ other.word = word /\ other.first = first /\ other.last = last)
          => (other.res = ret.val)
    /\ other.pc # "raised"

\* Both calls were given the same text and range and returned a non-empty
\* mapping.
C13_Witness ==
    /\ Returned /\ other.pc = "done"
    /\ other.word = word /\ other.first = first /\ other.last = last
    /\ Len(word) = MaxLooseText
    /\ DOMAIN ret.val # {}

----
\* The updatable heap.

\* The heap order: no element is smaller than its parent.
HeapOrdered(h) ==
    \A i \in 1..(Len(h) - 1) : el_le(h[((i - 1) \div 2) + 1], h[i + 1])

\* C14: the heap order, heap[(i-1)//2] <= heap[i] for every index i >= 1,
\* holds at the end of every call of push, pop, decrease and update.
C14_HeapOrder == HeapOrdered(heap)

\* How many times x is in the list lst.
Count(x, lst) == Cardinality({j \in 1..Len(lst) : lst[j] = x})

\* Two lists hold the same elements the same number of times.
SameElements(a, b) ==
    /\ Len(a) = Len(b)
    /\ \A j \in 1..Len(a) : Count(a[j], a) = Count(a[j], b)

\* C15: a call of decrease(new_heap_key, key, data) grows the heap by one
\* element when no element had the key; when one had it, at any index, the
\* size stays and that element becomes (new_heap_key, key, data); either
\* way no two elements of the heap have the same key afterwards.
C15_DecreaseReplacesOrPushes ==
    [][(h_ret'.op = "decrease") =>
        LET e == h_ret'.arg
            held == e[2] \in KeysOf(heap)
        IN  /\ ~held => Len(heap') = Len(heap) + 1
            /\ held => Len(heap') = Len(heap)
            /\ Count(e, heap') = 1
            /\ \A i, j \in 1..Len(heap') :
                  heap'[i][2] = heap'[j][2] => i = j]_vars

\* C16: sorted_iterator() and heapsort(lst), called after pushes of elements
\* with distinct keys, return every element the heap holds (those pushed
\* before and those of lst) exactly once, in non-decreasing order of
\* (heap_key, key, data); an empty heap and an empty list give the empty
\* list; afterwards self.heap holds the elements it held when the popping
\* started.
C16_SortReturnsAll ==
    [][(h_ret'.op \in {"sorted_iterator", "heapsort"}) =>
        LET val == h_ret'.val
            all == heap \o h_ret'.lst
        IN  /\ SameElements(val, all)
            /\ \A j \in 1..(Len(val) - 1) : el_le(val[j], val[j + 1])
            /\ (all = <<>>) => (val = <<>>)
            /\ SameElements(heap', all)
            /\ HeapOrdered(heap')]_vars

\* heapsort was given a list on a heap with elements and returned as many
\* elements as there are keys, in another order than the heap list has them.
C16_Witness ==
    /\ h_ret.op = "heapsort"
    /\ h_ret.lst # <<>>
    /\ Len(h_ret.val) = MaxSortKey
    /\ h_ret.val # heap
    /\ register = EmptyMap

----
\* Shortest paths.

\* A length no path without a repeated vertex reaches.
RECURSIVE Beyond(_, _)
Beyond(es, j) == IF j > Len(es) THEN 1 ELSE es[j][3] + Beyond(es, j + 1)

\* The vertices of a list of edges.
VerticesOf(es) == UNION {{es[j][1], es[j][2]} : j \in 1..Len(es)}

\* The least of a non-empty set of numbers.
Least(S) == CHOOSE x \in S : \A y \in S : x <= y

\* The lengths of the shortest walks of at most k edges from src, edges
\* taken in both directions; Beyond(es, 1) where there is none.
RECURSIVE Walks(_, _, _)
Walks(es, src, k) ==
    IF k = 0
    THEN [v \in VerticesOf(es) \cup {src} |->
             IF v = src THEN 0 ELSE Beyond(es, 1)]
    ELSE LET d == Walks(es, src, k - 1) IN
         [v \in DOMAIN d |->
             Least({d[v]}
                   \cup {d[es[j][1]] + es[j][3] :
                            j \in {i \in 1..Len(es) : es[i][2] = v}}
                   \cup {d[es[j][2]] + es[j][3] :
                            j \in {i \in 1..Len(es) : es[i][1] = v}})]

\* The length of a shortest path from src to each vertex.
ShortestDist(es, src) == Walks(es, src, Cardinality(VerticesOf(es)))

\* The vertices a path leads to from src.
Reachable(es, src) ==
    {v \in DOMAIN ShortestDist(es, src) :
        ShortestDist(es, src)[v] < Beyond(es, 1)}

\* Where the key x is in the list of distinct numbers lst.
IndexOf(x, lst) == CHOOSE j \in 1..Len(lst) : lst[j] = x

C18_ReturnsPathAndDict ==
    (d_pc = "returned") =>
        /\ d_ret.type = "tuple"
        /\ d_ret.val[1] = extracted
        /\ \A i, j \in 1..Len(extracted) :
              i <= j => ShortestDist(edges, d_s)[extracted[i]]
                        <= ShortestDist(edges, d_s)[extracted[j]]
        /\ (edges = E_test) => (d_ret.val[1] = <<1, 3, 4, 2>>)
        /\ d_ret.val[2] = dist_map(vds)


\* The sum of the elements of a at Python indexes i..j.
RECURSIVE ArraySum(_, _, _)
ArraySum(a, i, j) ==
    IF i > j THEN 0 ELSE a[i + 1] + ArraySum(a, i + 1, j)

\* C19: after the constructor with any n, init_with_list(lst) and any add_at
\* calls at indexes of the array, range_sum(i, j) is the sum of the current
\* elements i..j and element(j) is the current element j, for all
\* 0 <= i <= j < len(lst); so are the values the last call returned, and
\* range_sum(0, 2) is 16 on the list of the tests.
C19_SumsMatchArray ==
    /\ tree_lst # <<>> =>
         \A j \in 0..(Len(arr) - 1) :
            /\ element(tree_lst, j) = arr[j + 1]
            /\ \A i \in 0..j : range_sum(tree_lst, i, j) = ArraySum(arr, i, j)
    /\ bit_ret.op = "range_sum" =>
         bit_ret.val = ArraySum(arr, bit_ret.i, bit_ret.j)
    /\ bit_ret.op = "element" => bit_ret.val = arr[bit_ret.j + 1]
    /\ (bit_ret.op = "range_sum" /\ arr = L_test /\ bit_ret.i = 0
          /\ bit_ret.j = 2) => bit_ret.val = 16

\* A range_sum over more than one element, not from index 0, returned on a
\* list of another length than the constructor was given, after an add_at
\* made an element a value no list holds.
C19_Witness ==
    /\ bit_ret.op = "range_sum"
    /\ bit_ret.i >= 1 /\ bit_ret.j > bit_ret.i
    /\ Len(arr) = MaxBitLen /\ bit_n # Len(arr)
    /\ \E k \in 1..Len(arr) : arr[k] \notin BitValues /\ arr[k] # 0
    /\ bit_ret.val # 0

\* C20: Bit(n) with n < 1 raises BITError, and init_with_list of the empty
\* list raises BITError and leaves tree_lst as it was.
C20_IllegalLengthRaises ==
    [][/\ (bit_ret'.op = "Bit" /\ bit_ret'.n < 1) =>
            bit_ret'.exc = "BITError"
       /\ (bit_ret'.op = "init_with_list" /\ bit_ret'.lst = <<>>) =>
            (bit_ret'.exc = "BITError" /\ tree_lst' = tree_lst)]_vars

\* init_with_list([]) raised on a Bit whose tree_lst holds sums that are not
\* zero.
C20_Witness ==
    /\ bit_ret.op = "init_with_list"
    /\ bit_ret.lst = <<>> /\ bit_ret.exc = "BITError"
    /\ Len(tree_lst) = MaxBitLen + 1
    /\ \E k \in 1..Len(tree_lst) : tree_lst[k] # 0


\* f of the elements of a at Python indexes i..j, i <= j, by definition.
RangeOf(f, a, i, j) ==
    LET S == {a[k + 1] : k \in i..j} IN
    CASE f = "min" -> CHOOSE x \in S : \A y \in S : x <= y
      [] f = "max" -> CHOOSE x \in S : \A y \in S : x >= y
      [] f = "sum" -> ArraySum(a, i, j)

\* Every rmq on the tree t answers with f of the array a over the range.
RmqAnswers(a, t, f) ==
    \A j \in 0..(Len(a) - 1) : \A i \in 0..j :
        LET r == rmq(Len(a), t, i, j, f, ignore_of(f)) IN
        r.exc = "none" /\ r.val = RangeOf(f, a, i, j)

\* C21: on the tree build_helper_tree returned for an array that is not
\* empty, rmq over every range 0 <= i <= j < len(a) is f of a[i..j], for min
\* with +inf, max with -inf and sum with 0; and rmq raises RuntimeError when
\* q_st < 0, q_end > len_a - 1 or q_st > q_end, and only then.
C21_RmqOnBuiltTree ==
    /\ (rq_t # <<>> /\ rq_upd = 0) => RmqAnswers(rq_a, rq_t, rq_f)
    /\ rq_ret.op = "rmq" =>
         /\ rq_ret.exc = "RuntimeError" <=>
               (rq_ret.q_st < 0 \/ rq_ret.q_end > Len(rq_a) - 1
                \/ rq_ret.q_st > rq_ret.q_end)
         /\ (rq_ret.exc = "none" /\ rq_upd = 0) =>
               rq_ret.val = RangeOf(rq_f, rq_a, rq_ret.q_st, rq_ret.q_end)

\* rmq returned the minimum of a range that is neither the whole array nor
\* one element, on a tree with padding slots that no update has touched.
C21_Witness ==
    /\ rq_ret.op = "rmq" /\ rq_ret.exc = "none"
    /\ rq_upd = 0 /\ rq_f = "min"
    /\ Len(rq_a) = MaxArrLen /\ Len(rq_t) > 2 * Len(rq_a) - 1
    /\ rq_ret.q_st >= 1 /\ rq_ret.q_end > rq_ret.q_st
    /\ rq_ret.val # rq_t[1]

\* C22: the list update leaves, given a tree straight from
\* build_helper_tree and the change the module documents, equals
\* build_helper_tree of the new array element for element, padding slots
\* included.
C22_UpdateEqualsRebuild ==
    (rq_ret.op = "update" /\ rq_ret.exc = "none" /\ rq_upd = 1) =>
        rq_t = build_helper_tree(rq_a, rq_f, ignore_of(rq_f))

\* C23: after any sequence of update calls made as the module documents,
\* rmq over every range returns f of the current array over that range.
C23_RmqAfterUpdates ==
    (rq_t # <<>> /\ rq_upd > 0) => RmqAnswers(rq_a, rq_t, rq_f)


\* C29: the register's key set is the set of keys of the elements in
\* self.heap, and heap[register[k]].key = k for every registered k, after any
\* sequence of calls that returned.
C29_RegisterConsistent ==
    /\ DOMAIN register = {heap[j][2] : j \in 1..Len(heap)}
    /\ \A k \in DOMAIN register :
         /\ register[k] \in 0..(Len(heap) - 1)
         /\ heap[register[k] + 1][2] = k


\* C30: during shortest_paths on a graph with non-negative weights the heap
\* holds at most one element per vertex, no vertex is popped from the heap
\* twice, and the heap_key of the element popped last is the distance the
\* returned map gives its vertex (the length of a shortest path, C17).
C30_EachVertexOnce ==
    /\ \A i \in 1..Len(heap), j \in 1..Len(heap) :
          heap[i][2] = heap[j][2] => i = j
    /\ \A i \in 1..Len(extracted), j \in 1..Len(extracted) :
          extracted[i] = extracted[j] => i = j
    /\ (d_pc = "relax") =>
          current[1] = ShortestDist(edges, d_s)[current[2]]
    /\ (d_pc = "returned" /\ extracted # <<>>) =>
          current[1] = d_ret.val[current[2]]


\* The node whose child the node id is (the root for the root).
ParentOf(id) ==
    IF id = root THEN root
    ELSE CHOOSE p \in 1..Len(nodes) :
            \E j \in 1..Len(nodes[p].d_children) :
                nodes[p].d_children[j][2] = id

\* The trie-path string of the node id.
RECURSIVE PathOf(_)
PathOf(id) ==
    IF id = root THEN <<>>
    ELSE LET p == ParentOf(id)
             j == CHOOSE j \in 1..Len(nodes[p].d_children) :
                     nodes[p].d_children[j][2] = id
         IN  Append(PathOf(p), nodes[p].d_children[j][1])

Depth(id) == Len(PathOf(id))

\* The suffixes of s from position k on, k = Len(s) + 1 the empty one.
SuffixFrom(s, k) == SubSeq(s, k, Len(s))

\* The node of the longest proper suffix of s that is a path in the trie.
LongestSuffixNode(s) ==
    LET ks == {k \in 2..(Len(s) + 1) : NodeAt(root, SuffixFrom(s, k), 1) # None}
        k0 == CHOOSE k \in ks : \A k2 \in ks : k <= k2
    IN  NodeAt(root, SuffixFrom(s, k0), 1)

\* build has returned.
Built == pc \in {"built", "trav"}

\* C24: after build every node other than the root has its fail link set,
\* to the node of the longest proper suffix of its trie-path string that is
\* a path in the trie (the root when there is none), which is strictly
\* shallower than the node; and root.fail is the root.
C24_FailIsLongestSuffix ==
    Built =>
        /\ nodes[root].fail = root
        /\ \A v \in 2..Len(nodes) :
              /\ nodes[v].fail # None
              /\ nodes[v].fail = LongestSuffixNode(PathOf(v))
              /\ Depth(nodes[v].fail) < Depth(v)

\* A built trie with a node of depth three whose fail link leads to a node
\* of depth two ("she" to "he").
C24_Witness ==
    /\ Built
    /\ \E v \in 2..Len(nodes) :
          /\ Depth(v) = 3
          /\ nodes[v].fail # None /\ nodes[v].fail # root
          /\ Depth(nodes[v].fail) = 2

\* The output map a node stands for: the patterns that are suffixes of its
\* trie-path string (its own and those of the nodes on its chain of fail
\* links up to the root), each with one entry for each of its ordinals.
OutputOf(id) ==
    LET s == PathOf(id) IN
    [key \in {p \in Patterns : IsSuffix(p, s)} |-> DirectList(key)]

C26_LevelByLevel ==
    [][\A v \in 1..Len(nodes) :
          (nodes[v].fail = None /\ nodes'[v].fail # None) =>
              /\ nodes'[v].output = OutputOf(v)
              /\ \A u \in 1..Len(nodes) :
                    Depth(u) < Depth(v) =>
                        /\ nodes'[u].fail # None
                        /\ nodes'[u].output = OutputOf(u)
              /\ nodes'[nodes'[v].fail].fail # None
              /\ nodes'[nodes'[v].fail].output = OutputOf(nodes'[v].fail)]_vars

\* _build_fail is under way: a node of depth three has its fail link, to a
\* node that is not the root, and another node has none yet.
C26_Witness ==
    /\ pc = "fail"
    /\ \E v \in 2..Len(nodes), w \in 2..Len(nodes) :
          /\ Depth(v) = 3
          /\ nodes[v].fail # None /\ nodes[v].fail # root
          /\ nodes[w].fail = None

\* C27: build, once entered, returns; traverse, once entered, returns its
\* result without an error with every character of the text consumed; and
\* every step of traverse's loop consumes exactly one character.
C27_WalksTerminate ==
    /\ (pc = "add") ~> (pc = "built" /\ ret.op = "build")
    /\ (pc = "trav") ~>
          (pc = "built" /\ ret.op = "traverse" /\ ret.exc = "none"
             /\ t_i = Len(word))
    /\ [][(pc = "trav" /\ t_i' # t_i) => (t_i' = t_i + 1)]_vars

\* traverse has returned for the text "shershehishers" on the patterns he,
\* she, his, her, hers.
C27_Witness ==
    /\ pc = "built" /\ ret.op = "traverse" /\ ret.exc = "none"
    /\ words = Words_he /\ word = T_shershehishers
    /\ t_i = Len(word)

\* No suffix of the trie-path string of node id, the empty one included, is
\* followed by c in the trie: the fallback walk for c from id ends at the
\* root, which has no child for c.
NoSuffixTakes(id, c) ==
    \A k \in 1..(Depth(id) + 1) :
        NodeAt(root, Append(SuffixFrom(PathOf(id), k), c), 1) = None

\* C28: when the fallback walk for a character of the text ends at the root
\* and the root has no child for it, the step leaves traverse at the root
\* with its result as it was, raises nothing, and goes on to the next
\* character.
C28_StayAtRoot ==
    [][(pc = "trav" /\ t_i < Len(word) /\ NoSuffixTakes(n, word[t_i + 1]))
        => /\ n' = root
           /\ res' = res
           /\ pc' = "trav" /\ ret' = ret
           /\ t_i' = t_i + 1]_vars

\* traverse is at the root after a character the root has no child for,
\* with a match counted before it and text left to read.
C28_Witness ==
    /\ pc = "trav"
    /\ t_i >= 2 /\ t_i < Len(word)
    /\ n = root
    /\ get_child(nodes[root], word[t_i]) = None
    /\ DOMAIN res # {}

====
